---- MODULE Spec2Model ----
(***************************************************************************)
(* Model of the volatility pipeline: the filter stages                     *)
(* (modules/curve_filter.py, modules/vol_extractor.py) and the surface     *)
(* builder (modules/volatility_surface.py), over a small file system.      *)
(* Text values (file names, column values) are strings and every string    *)
(* operation the code performs (upper, strip, endswith, re.match, in,      *)
(* formatting, parsing) is computed character by character.                *)
(***************************************************************************)
EXTENDS Integers, Sequences, FiniteSets, TLC

(***************************************************************************)
(* Bounds of the model                                                     *)
(***************************************************************************)
\* total number of rows spread over the input files of the filter stage
MaxRows == 2
\* number of stage invocations in one behaviour
MaxRuns == 2

(***************************************************************************)
(* Strings: a text is the sequence of its characters                       *)
(***************************************************************************)
\* a sequence given as a function, as a tuple
Tup(f) == f \o <<>>

\* the text of a string literal
Str(s) == Tup([i \in 1..Len(s) |-> SubSeq(s, i, i)])

Digits == <<"0", "1", "2", "3", "4", "5", "6", "7", "8", "9">>

DigitSet == {Digits[i] : i \in 1..10}

IsDigit(c) == c \in DigitSet

DigitVal(c) == (CHOOSE i \in 1..10 : Digits[i] = c) - 1

AllDigits(s) == \A i \in 1..Len(s) : IsDigit(s[i])

\* int(s) of a text of digits
RECURSIVE ParseInt(_)
ParseInt(s) ==
    IF Len(s) = 0 THEN 0
    ELSE 10 * ParseInt(SubSeq(s, 1, Len(s) - 1)) + DigitVal(s[Len(s)])

LowerLetters == <<"a", "b", "c", "d", "e", "f", "g", "h", "i", "j", "k", "l", "m",
                  "n", "o", "p", "q", "r", "s", "t", "u", "v", "w", "x", "y", "z">>

UpperLetters == <<"A", "B", "C", "D", "E", "F", "G", "H", "I", "J", "K", "L", "M",
                  "N", "O", "P", "Q", "R", "S", "T", "U", "V", "W", "X", "Y", "Z">>

LowerSet == {LowerLetters[i] : i \in 1..26}

UpperChar(c) ==
    IF c \in LowerSet
    THEN UpperLetters[CHOOSE i \in 1..26 : LowerLetters[i] = c]
    ELSE c

\* str.upper()
Upper(s) == Tup([i \in 1..Len(s) |-> UpperChar(s[i])])

\* str.lstrip() and str.rstrip()
RECURSIVE LStrip(_)
LStrip(s) == IF Len(s) > 0 /\ s[1] = " " THEN LStrip(Tail(s)) ELSE s

RECURSIVE RStrip(_)
RStrip(s) == IF Len(s) > 0 /\ s[Len(s)] = " " THEN RStrip(SubSeq(s, 1, Len(s) - 1)) ELSE s

\* str.strip(): drops leading and trailing white space (U+200B is none)
Strip(s) == RStrip(LStrip(s))

\* str.endswith(suffix)
EndsWith(s, suffix) ==
    /\ Len(s) >= Len(suffix)
    /\ SubSeq(s, Len(s) - Len(suffix) + 1, Len(s)) = suffix

\* the Python test  sub in s
Contains(s, sub) ==
    \E i \in 1..(Len(s) + 1) :
        /\ i + Len(sub) - 1 <= Len(s)
        /\ SubSeq(s, i, i + Len(sub) - 1) = sub

\* str.replace(old, '') for a one-character old
Remove(s, old) == SelectSeq(s, LAMBDA c : c # old)

\* str.replace(old, new) for one-character old and new
Replace(s, old, new) == Tup([i \in 1..Len(s) |-> IF s[i] = old THEN new ELSE s[i]])

\* the characters that occur in file names, in the order of their code points
CharOrder == <<" ", "$", "+", "-", ".", "0", "1", "2", "3", "4", "5", "6", "7", "8", "9",
               "A", "B", "C", "D", "E", "F", "G", "H", "I", "J", "K", "L", "M",
               "N", "O", "P", "Q", "R", "S", "T", "U", "V", "W", "X", "Y", "Z", "_",
               "a", "b", "c", "d", "e", "f", "g", "h", "i", "j", "k", "l", "m",
               "n", "o", "p", "q", "r", "s", "t", "u", "v", "w", "x", "y", "z">>

CharRank(c) == CHOOSE i \in 1..Len(CharOrder) : CharOrder[i] = c

\* the order of Python strings
StrLess(a, b) ==
    LET n == IF Len(a) < Len(b) THEN Len(a) ELSE Len(b)
        diff == {i \in 1..n : a[i] # b[i]}
    IN  IF diff = {} THEN Len(a) < Len(b)
        ELSE LET i == CHOOSE k \in diff : \A j \in diff : k <= j
             IN  CharRank(a[i]) < CharRank(b[i])

\* sorted(S) of a set of strings
RECURSIVE Sorted(_)
Sorted(S) ==
    IF S = {} THEN <<>>
    ELSE LET m == CHOOSE x \in S : \A y \in S \ {x} : StrLess(x, y)
         IN  <<m>> \o Sorted(S \ {m})

\* the elements of a sequence
Range(seq) == {seq[i] : i \in 1..Len(seq)}

(***************************************************************************)
(* Values and conversions                                                  *)
(***************************************************************************)
\* pandas NaT, as a date
NaT == 0

\* pandas NaN, as a number: values are kept in hundredths, all of them >= -999
NaN == -1000

\* the character U+200B (zero width space) of a header name
ZWSP == "~"

\* f"{x:02d}"
Fmt02(m) == IF m < 10 THEN <<"0">> \o Str(ToString(m)) ELSE Str(ToString(m))

\* pd.to_datetime(text, errors='coerce') on the ISO form YYYY-MM-DD; a date
\* is the number YYYYMMDD
ParseDate(s) ==
    IF /\ Len(s) = 10
       /\ s[5] = "-"
       /\ s[8] = "-"
       /\ AllDigits(SubSeq(s, 1, 4))
       /\ AllDigits(SubSeq(s, 6, 7))
       /\ AllDigits(SubSeq(s, 9, 10))
       /\ ParseInt(SubSeq(s, 6, 7)) \in 1..12
       /\ ParseInt(SubSeq(s, 9, 10)) \in 1..31
    THEN ParseInt(SubSeq(s, 1, 4)) * 10000 + ParseInt(SubSeq(s, 6, 7)) * 100
             + ParseInt(SubSeq(s, 9, 10))
    ELSE NaT

YearOf(d) == d \div 10000

MonthOf(d) == (d \div 100) % 100

DayOf(d) == d % 100

\* a datetime column as to_csv writes it
FormatDate(d) ==
    Str(ToString(YearOf(d))) \o <<"-">> \o Fmt02(MonthOf(d)) \o <<"-">> \o Fmt02(DayOf(d))

\* df['Curve_Date'].dt.year.astype(str)
YearStr(d) == Str(ToString(YearOf(d)))

\* df['Curve_Date'].dt.month.apply(lambda x: f"{x:02d}")
MonthStr(d) == Fmt02(MonthOf(d))

\* a column of integers read by pd.read_csv and written again by to_csv
NormalizeInt(s) == IF Len(s) > 0 /\ AllDigits(s) THEN Str(ToString(ParseInt(s))) ELSE s

(***************************************************************************)
(* Rows, files and the file system                                         *)
(***************************************************************************)
\* one row of a file: the text of each column the pipeline looks at (the
\* empty string where the file has no such column)
Row(basis, type, callput, curveDate, mid) ==
    [Basis |-> basis, Type |-> type, CallPut |-> callput, Curve_Date |-> curveDate,
     Mid |-> mid, Contract_Month |-> <<>>, year |-> <<>>, month |-> <<>>, date |-> <<>>]

\* a file: how it parses, its header names and its rows; the kinds are "ok"
\* (UTF-8 text of at least 10 bytes), "small" (UTF-8 text of less than 10
\* bytes), "utf16" (text that parses as UTF-16 only) and "garbage" (no CSV
\* text under any encoding)
File(kind, cols, rows) == [kind |-> kind, cols |-> cols, rows |-> rows]

\* the directories of the model: the input folder, the output folder of the
\* filter stage, the output folder of the surface builder and the temporary
\* folder of the UI's EWMA filter
Dirs == {"in", "out", "surf", "ewma"}

NoFiles == <<>>

VARIABLES
    fs,        \* fs[d][name]: the file called name in directory d
    nested,    \* TRUE when the output folder lies inside the input folder
    order,     \* the order in which os.walk yields the input folder's files
    last,      \* the last invocation: its arguments and what it did
    runs       \* number of invocations so far

vars == <<fs, nested, order, last, runs>>

\* writing (creating or overwriting) a file
WriteFile(dir, name, content) == (name :> content) @@ dir

\* the names of a directory as the file system lists them: the input folder
\* in its discovery order (files created later come last), the other
\* directories by name
ListDir(fsys, d, ord) ==
    IF d = "in"
    THEN SelectSeq(ord, LAMBDA n : n \in DOMAIN fsys[d])
             \o Sorted(DOMAIN fsys[d] \ Range(ord))
    ELSE Sorted(DOMAIN fsys[d])

\* for root, _, files in os.walk(input_folder): the files of the folder, then
\* those of the output folder when it is a subfolder
WalkFiles(fsys, nest, ord) ==
    LET top == ListDir(fsys, "in", ord)
        sub == ListDir(fsys, "out", ord)
    IN  Tup([i \in 1..Len(top) |-> <<"in", top[i]>>])
            \o (IF nest THEN Tup([i \in 1..Len(sub) |-> <<"out", sub[i]>>]) ELSE <<>>)

\* concatenation of a sequence of sequences
RECURSIVE Flatten(_)
Flatten(ss) == IF Len(ss) = 0 THEN <<>> ELSE Head(ss) \o Flatten(Tail(ss))

\* the keys of a groupby(['year', 'month']), in sorted order
KeyLess(a, b) == StrLess(a[1], b[1]) \/ (a[1] = b[1] /\ StrLess(a[2], b[2]))

RECURSIVE SortedKeys(_)
SortedKeys(S) ==
    IF S = {} THEN <<>>
    ELSE LET m == CHOOSE x \in S : \A y \in S \ {x} : KeyLess(x, y)
         IN  <<m>> \o SortedKeys(S \ {m})

\* file_dict[month_key].append(group), creating the entry when it is new;
\* the dictionary is a sequence of entries in insertion order
DictAppend(dict, key, group) ==
    IF \E i \in 1..Len(dict) : dict[i].key = key
    THEN Tup([i \in 1..Len(dict) |->
             IF dict[i].key = key
             THEN [dict[i] EXCEPT !.groups = Append(@, group)]
             ELSE dict[i]])
    ELSE Append(dict, [key |-> key, groups |-> <<group>>])

GroupKeys(rows) == SortedKeys({<<rows[i].year, rows[i].month>> : i \in 1..Len(rows)})

\* the date columns every filter adds: year, month and date
WithDateColumns(r) ==
    LET d == ParseDate(r.Curve_Date)
    IN  [r EXCEPT !.Curve_Date = FormatDate(d),
                  !.year = YearStr(d),
                  !.month = MonthStr(d),
                  !.date = FormatDate(d)]

\* the rows of a frame with the date columns added
AddDateColumns(rows) == Tup([i \in 1..Len(rows) |-> WithDateColumns(rows[i])])

\* df = df[df['Curve_Date'].notnull()] after pd.to_datetime(errors='coerce')
DropBadDates(rows) == SelectSeq(rows, LAMBDA r : ParseDate(r.Curve_Date) # NaT)

\* the columns every filter adds
DateColumns == {Str("year"), Str("month"), Str("date")}

\* a data frame: its column names and its rows
Frame(cols, rows) == [cols |-> cols, rows |-> rows]

\* pd.concat(groups, ignore_index=True)
ConcatFrames(groups) ==
    Frame(UNION {groups[i].cols : i \in 1..Len(groups)},
          Flatten(Tup([i \in 1..Len(groups) |-> groups[i].rows])))

\* the grouping with groups taken by month alone
AddFrameByMonth(dict, cols, rows, month) ==
    LET keys == GroupKeys(rows)
        RECURSIVE Add(_, _)
        Add(d, ks) ==
            IF Len(ks) = 0 THEN d
            ELSE LET ym == Head(ks)
                     month_key == ym[1] \o <<"-">> \o ym[2]
                     group == Frame(cols, SelectSeq(rows, LAMBDA r : r.month = ym[2]))
                 IN  IF month # <<>> /\ ym[2] # month
                     THEN Add(d, Tail(ks))
                     ELSE Add(DictAppend(d, month_key, group), Tail(ks))
    IN  Add(dict, keys)

\* file_dict after the groups of one filtered frame were added
AddFrame(dict, cols, rows, month) ==
    LET keys == GroupKeys(rows)
        RECURSIVE Add(_, _)
        Add(d, ks) ==
            IF Len(ks) = 0 THEN d
            ELSE LET ym == Head(ks)
                     month_key == ym[1] \o <<"-">> \o ym[2]
                     group == Frame(cols, SelectSeq(rows,
                                  LAMBDA r : r.year = ym[1] /\ r.month = ym[2]))
                 IN  IF month # <<>> /\ ym[2] # month
                     THEN Add(d, Tail(ks))
                     ELSE Add(DictAppend(d, month_key, group), Tail(ks))
    IN  Add(dict, keys)

(***************************************************************************)
(* modules/curve_filter.py: extract_curve_data                             *)
(***************************************************************************)
\* the strikes the UI passes as target_strikes
AppStrikes == {Str("ATM - $1.00"), Str("ATM - $0.75"), Str("ATM - $0.50"), Str("ATM - $0.25"),
               Str("ATM"), Str("ATM + $0.25"), Str("ATM + $0.50"), Str("ATM + $0.75")}

UpperAll(list) == {Upper(list[i]) : i \in 1..Len(list)}

\* the mask without its test of the curve name
ExtractMaskAnyCurve(r, a) ==
    /\ r.Type \in {Upper(t) : t \in a.strikes}
    /\ r.year = a.year

\* the mask of extract_curve_data on a row that has its date columns
ExtractMask(r, a) ==
    /\ Upper(r.Basis) \in UpperAll(a.curves)
    /\ r.Type \in {Upper(t) : t \in a.strikes}
    /\ r.year = a.year

\* TRUE when the loop body reaches the filter for this file: the file is
\* read and has the required columns
ExtractReads(f) ==
    /\ f.kind = "ok"
    /\ Len(f.rows) > 0
    /\ {Str("Basis"), Str("Type"), Str("Curve_Date")} \subseteq {Strip(c) : c \in f.cols}

\* df_filtered of one file
ExtractFiltered(f, a) ==
    LET cleaned == Tup([i \in 1..Len(f.rows) |->
                           [f.rows[i] EXCEPT !.Basis = Strip(@),
                                             !.Type = Upper(Strip(@))]])
        dated == AddDateColumns(DropBadDates(cleaned))
        byMask == SelectSeq(dated, LAMBDA r : ExtractMask(r, a))
    IN  IF a.month # <<>>
        THEN SelectSeq(byMask, LAMBDA r : r.month = a.month)
        ELSE byMask

\* the body of the loop over the input files: file_dict after one file, and
\* the rows that survived the filter so far
ExtractFile(acc, f, a) ==
    IF ~ExtractReads(f)
    THEN acc
    ELSE CHOOSE res \in
           { [dict |-> AddFrame(acc.dict, {Strip(c) : c \in f.cols} \cup DateColumns,
                                df_filtered, a.month),
              kept |-> acc.kept \o df_filtered] :
             df_filtered \in {ExtractFiltered(f, a)} } : TRUE

\* the loop over os.walk(input_folder)
RECURSIVE ExtractWalk(_, _, _, _)
ExtractWalk(acc, paths, fsys, a) ==
    IF Len(paths) = 0 THEN acc
    ELSE LET p == Head(paths)
         IN  IF ~EndsWith(p[2], Str(".csv"))
             THEN ExtractWalk(acc, Tail(paths), fsys, a)
             ELSE ExtractWalk(ExtractFile(acc, fsys[p[1]][p[2]], a), Tail(paths), fsys, a)

\* the name of the monthly artifact of a key
ExtractMonthlyName(month_key) == month_key \o Str(".csv")

\* for month_key, groups in file_dict.items(): write the monthly artifact;
\* names[i] is the file name of the i-th entry
RECURSIVE WriteMonthly(_, _, _)
WriteMonthly(dir, dict, names) ==
    IF Len(dict) = 0 THEN dir
    ELSE LET out_df == ConcatFrames(Head(dict).groups)
         IN  WriteMonthly(WriteFile(dir, Head(names), File("ok", out_df.cols, out_df.rows)),
                          Tail(dict), Tail(names))

ExtractMonthlyNames(dict) ==
    Tup([i \in 1..Len(dict) |-> ExtractMonthlyName(dict[i].key)])

\* re.match(r'\d{4}-\d{2}\.csv', f)
MatchMonthly(f) ==
    /\ Len(f) >= 11
    /\ AllDigits(SubSeq(f, 1, 4))
    /\ f[5] = "-"
    /\ AllDigits(SubSeq(f, 6, 7))
    /\ SubSeq(f, 8, 11) = Str(".csv")

\* pd.read_csv of an artifact: the columns of integers lose their leading
\* zeros, the other columns are read as written
ReadCsv(f) ==
    Frame(f.cols, Tup([i \in 1..Len(f.rows) |->
                          [f.rows[i] EXCEPT !.year = NormalizeInt(@),
                                            !.month = NormalizeInt(@)]]))

\* the artifacts the combine step of extract_curve_data re-reads
ExtractMonthlyFiles(dir) ==
    Sorted({f \in DOMAIN dir : EndsWith(f, Str(".csv")) /\ MatchMonthly(f)})

ExtractCombinedName(year) == year \o Str("_combined.csv")

\* the combine step: the output folder after it
ExtractCombine(dir, year) ==
    LET names == ExtractMonthlyFiles(dir)
        all_months == Tup([i \in 1..Len(names) |-> ReadCsv(dir[names[i]])])
        combined_df == ConcatFrames(all_months)
    IN  IF Len(names) = 0 THEN dir
        ELSE WriteFile(dir, ExtractCombinedName(year),
                       File("ok", combined_df.cols, combined_df.rows))

\* pd.read_csv raises on a file it cannot parse
ExtractCombineRaises(dir) ==
    \E f \in Range(ExtractMonthlyFiles(dir)) : dir[f].kind = "garbage"

(***************************************************************************)
(* modules/vol_extractor.py: filter_vol_data                               *)
(***************************************************************************)
\* robust_read_csv of vol_extractor.py: TRUE when it returns None
VolReadFails(f) == f.kind = "garbage"

\* the mask with the year tested under an explicit range as well
VolMaskYearAlways(r, a) ==
    /\ Upper(r.Basis) \in UpperAll(a.basis_filter)
    /\ (a.type_filter # <<>> => r.Type = Upper(a.type_filter))
    /\ (a.callput_filter # <<>> => r.CallPut = Upper(a.callput_filter))
    /\ (a.start_date # <<>> /\ a.end_date # <<>>) =>
            /\ ParseDate(r.Curve_Date) >= ParseDate(a.start_date)
            /\ ParseDate(r.Curve_Date) <= ParseDate(a.end_date)
    /\ r.year = a.year
    /\ (a.month # <<>> => r.month = a.month)

\* the mask of filter_vol_data on a row that has its date columns
VolMask(r, a) ==
    /\ Upper(r.Basis) \in UpperAll(a.basis_filter)
    /\ (a.type_filter # <<>> => r.Type = Upper(a.type_filter))
    /\ (a.callput_filter # <<>> => r.CallPut = Upper(a.callput_filter))
    /\ IF a.start_date # <<>> /\ a.end_date # <<>>
       THEN /\ ParseDate(r.Curve_Date) >= ParseDate(a.start_date)
            /\ ParseDate(r.Curve_Date) <= ParseDate(a.end_date)
       ELSE r.year = a.year
    /\ (a.month # <<>> => r.month = a.month)

\* the header names after  .str.strip().str.replace(U+200B, '')
CleanHeader(cols) == {Remove(Strip(c), ZWSP) : c \in cols}

\* df['Basis'], df['Type'] and df.get('Call/Put', '').astype raise when the
\* column is missing
VolFileRaises(f) ==
    /\ ~VolReadFails(f)
    /\ ~ ({Str("Basis"), Str("Type"), Str("Call/Put")} \subseteq CleanHeader(f.cols))

\* the filtered frame of one file
VolFiltered(f, a) ==
    LET cleaned == Tup([i \in 1..Len(f.rows) |->
                           [f.rows[i] EXCEPT !.Basis = Strip(@),
                                             !.Type = Upper(Strip(@)),
                                             !.CallPut = Upper(Strip(@))]])
        dated == AddDateColumns(DropBadDates(cleaned))
    IN  SelectSeq(dated, LAMBDA r : VolMask(r, a))

\* the body of the loop over the input files: file_dict after one file, and
\* the rows that survived the filter so far
VolFile(acc, f, a) ==
    IF VolReadFails(f) \/ Str("Curve_Date") \notin CleanHeader(f.cols)
    THEN acc
    ELSE CHOOSE res \in
           { [dict |-> AddFrame(acc.dict,
                                CleanHeader(f.cols) \cup {Str("Call/Put")} \cup DateColumns,
                                filtered, a.month),
              kept |-> acc.kept \o filtered] :
             filtered \in {VolFiltered(f, a)} } : TRUE

\* the loop over os.walk(input_folder); the result says whether a file raised
RECURSIVE VolWalk(_, _, _, _)
VolWalk(acc, paths, fsys, a) ==
    IF Len(paths) = 0 THEN [raised |-> FALSE, dict |-> acc.dict, kept |-> acc.kept]
    ELSE LET p == Head(paths)
         IN  IF ~EndsWith(p[2], Str(".csv"))
             THEN VolWalk(acc, Tail(paths), fsys, a)
             ELSE IF VolFileRaises(fsys[p[1]][p[2]])
             THEN [raised |-> TRUE, dict |-> acc.dict, kept |-> acc.kept]
             ELSE VolWalk(VolFile(acc, fsys[p[1]][p[2]], a), Tail(paths), fsys, a)

\* month_key.split('-')[1]
SplitSecond(s) ==
    LET dashes == {i \in 1..Len(s) : s[i] = "-"}
        first == CHOOSE i \in dashes : \A j \in dashes : i <= j
        later == {i \in dashes : i > first}
        stop == IF later = {} THEN Len(s) + 1
                ELSE CHOOSE i \in later : \A j \in later : i <= j
    IN  SubSeq(s, first + 1, stop - 1)

\* curve_name = basis_filter[0] if basis_filter else "UNKNOWN"
VolCurveName(a) == IF Len(a.basis_filter) > 0 THEN a.basis_filter[1] ELSE Str("UNKNOWN")

\* the name of the monthly artifact of a key
VolMonthlyName(month_key, a) ==
    VolCurveName(a) \o <<"_">> \o SplitSecond(month_key) \o Str("_ewma_hist.csv")

VolMonthlyNames(dict, a) ==
    Tup([i \in 1..Len(dict) |-> VolMonthlyName(dict[i].key, a)])

\* the artifacts the combine step of filter_vol_data re-reads
VolMonthlyFiles(dir) ==
    Sorted({f \in DOMAIN dir : EndsWith(f, Str("_ewma_hist.csv"))})

VolCombinedName(a) == VolCurveName(a) \o <<"_">> \o a.year \o Str("_ewma_hist_combined.csv")

\* the combine step: the output folder after it
VolCombine(dir, a) ==
    LET names == SelectSeq(VolMonthlyFiles(dir), LAMBDA f : ~VolReadFails(dir[f]))
        all_months == Tup([i \in 1..Len(names) |-> ReadCsv(dir[names[i]])])
        combined_df == ConcatFrames(all_months)
    IN  IF Len(names) = 0 THEN dir
        ELSE WriteFile(dir, VolCombinedName(a), File("ok", combined_df.cols, combined_df.rows))

(***************************************************************************)
(* modules/volatility_surface.py: generate_vol_surfaces                    *)
(***************************************************************************)
\* type_to_moneyness, in hundredths
type_to_moneyness ==
    (Str("ATM - $1.00") :> -100) @@ (Str("ATM - $0.75") :> -75) @@ (Str("ATM - $0.50") :> -50)
    @@ (Str("ATM - $0.25") :> -25) @@ (Str("ATM") :> 0)
    @@ (Str("ATM + $0.25") :> 25) @@ (Str("ATM + $0.50") :> 50) @@ (Str("ATM + $0.75") :> 75)
    @@ (Str("ATM + $1.00") :> 100) @@ (Str("ATM + $1.25") :> 125) @@ (Str("ATM + $1.50") :> 150)
    @@ (Str("ATM + $1.75") :> 175) @@ (Str("ATM + $2.00") :> 200)

\* a mapping that gives an unknown label the moneyness of ATM
MapMoneynessDefaultZero(type) ==
    IF type \in DOMAIN type_to_moneyness THEN type_to_moneyness[type] ELSE 0

\* df['Type'].map(type_to_moneyness): NaN for a label that is no key
MapMoneyness(type) ==
    IF type \in DOMAIN type_to_moneyness THEN type_to_moneyness[type] ELSE NaN

\* pd.to_numeric(text, errors='coerce') in hundredths, for a text with at
\* most two decimals: digits, then optionally a point and one or two digits
ToNumeric(s) ==
    LET dots == {i \in 1..Len(s) : s[i] = "."}
    IN  IF Len(s) > 0 /\ AllDigits(s) THEN 100 * ParseInt(s)
        ELSE IF Cardinality(dots) # 1 THEN NaN
        ELSE LET dot == CHOOSE i \in dots : TRUE
                 whole == SubSeq(s, 1, dot - 1)
                 frac == SubSeq(s, dot + 1, Len(s))
             IN  IF /\ Len(whole) > 0 /\ AllDigits(whole)
                    /\ Len(frac) \in 1..2 /\ AllDigits(frac)
                 THEN 100 * ParseInt(whole)
                          + (IF Len(frac) = 1 THEN 10 * ParseInt(frac) ELSE ParseInt(frac))
                 ELSE NaN

\* df['date'].dt.to_period('M').astype(str)
PeriodStr(d) == IF d = NaT THEN Str("NaT") ELSE YearStr(d) \o <<"-">> \o MonthStr(d)

\* df_all['date'].dt.year.astype(str): the years are floats as soon as one
\* date of the frame is NaT
YearColumn(d, anyNaT) ==
    IF d = NaT THEN Str("nan")
    ELSE IF anyNaT THEN YearStr(d) \o Str(".0")
    ELSE YearStr(d)

\* robust_read_csv of volatility_surface.py: TRUE when it returns None
SurfaceReadFails(f) == f.kind # "ok" \/ Len(f.rows) = 0

\* TRUE when the loop over the data folder looks at the file at all
SurfaceTakesFile(name, a) ==
    /\ EndsWith(name, Str(".csv"))
    /\ (a.target_month = <<>> \/ Contains(name, a.target_month))

\* df['Type'] and df['Mid'] raise when the column is missing
SurfaceFileRaises(f) ==
    /\ ~SurfaceReadFails(f)
    /\ ~ ({Str("Type"), Str("Mid")} \subseteq CleanHeader(f.cols))

\* TRUE when the file is read and has a date column
SurfaceLoads(f) ==
    /\ ~SurfaceReadFails(f)
    /\ ~SurfaceFileRaises(f)
    /\ ({Str("date"), Str("Curve_Date")} \cap CleanHeader(f.cols)) # {}

\* one row of a file as it enters all_data
SurfaceRow(r, cols) ==
    LET d == ParseDate(IF Str("date") \in cols THEN r.date ELSE r.Curve_Date)
    IN  [Basis |-> IF Str("Basis") \in cols THEN r.Basis ELSE <<>>,
         Type |-> r.Type,
         Moneyness |-> MapMoneyness(r.Type),
         Mid |-> ToNumeric(r.Mid),
         date |-> d,
         month |-> PeriodStr(d)]

\* the rows of one file as they enter all_data
SurfaceFrame(f) ==
    Tup([i \in 1..Len(f.rows) |-> SurfaceRow(ReadCsv(f).rows[i], CleanHeader(f.cols))])

\* the load loop over os.listdir(data_folder)
RECURSIVE SurfaceLoad(_, _, _, _)
SurfaceLoad(acc, names, dir, a) ==
    IF Len(names) = 0 THEN acc
    ELSE LET f == dir[Head(names)]
         IN  IF ~SurfaceTakesFile(Head(names), a) \/ SurfaceReadFails(f)
             THEN SurfaceLoad(acc, Tail(names), dir, a)
             ELSE IF SurfaceFileRaises(f)
             THEN [acc EXCEPT !.raised = TRUE]
             ELSE IF ~SurfaceLoads(f)
             THEN SurfaceLoad(acc, Tail(names), dir, a)
             ELSE SurfaceLoad([acc EXCEPT !.frames = @ + 1,
                                          !.rows = @ \o SurfaceFrame(f),
                                          !.hasBasis = @ \/ Str("Basis") \in CleanHeader(f.cols)],
                              Tail(names), dir, a)

NothingLoaded == [raised |-> FALSE, frames |-> 0, rows |-> <<>>, hasBasis |-> FALSE]

\* the date filter: date_range when it has two elements, else start_date and
\* end_date when both are given
SurfaceInRange(r, a) ==
    IF Len(a.date_range) = 2
    THEN r.date # NaT /\ r.date >= ParseDate(a.date_range[1])
                      /\ r.date <= ParseDate(a.date_range[2])
    ELSE IF a.start_date # <<>> /\ a.end_date # <<>>
    THEN r.date # NaT /\ r.date >= ParseDate(a.start_date) /\ r.date <= ParseDate(a.end_date)
    ELSE TRUE

\* df_all: the loaded rows with their year column, after the date filter
SurfaceAll(rows, a) ==
    LET anyNaT == \E i \in 1..Len(rows) : rows[i].date = NaT
        withYear == Tup([i \in 1..Len(rows) |->
                       [Basis |-> rows[i].Basis, Type |-> rows[i].Type,
                        Moneyness |-> rows[i].Moneyness, Mid |-> rows[i].Mid,
                        date |-> rows[i].date, month |-> rows[i].month,
                        year |-> YearColumn(rows[i].date, anyNaT)]])
    IN  SelectSeq(withYear, LAMBDA r : SurfaceInRange(r, a))

\* greatest common divisor
RECURSIVE Gcd(_, _)
Gcd(x, y) == IF y = 0 THEN x ELSE Gcd(y, x % y)

RECURSIVE SumSeq(_)
SumSeq(q) == IF Len(q) = 0 THEN 0 ELSE Head(q) + SumSeq(Tail(q))

\* the aggregation with the sum in place of the mean
MeanAsSum(values) == [num |-> SumSeq(values), den |-> 1]

\* aggfunc='mean' of the values of a group: their sum over their number, as a
\* fraction in lowest terms
Mean(values) ==
    LET total == SumSeq(values)
        g == Gcd(IF total < 0 THEN -total ELSE total, Len(values))
    IN  [num |-> total \div g, den |-> Len(values) \div g]

\* df.pivot_table(index='date', columns='Moneyness', values='Mid',
\*                aggfunc='mean').dropna(axis=1, how='all'):
\* the groups leave out the rows without date or moneyness, a group's mean
\* leaves out the values that are NaN, and a group of NaN only has no cell
PivotTable(rows) ==
    LET keyed == SelectSeq(rows, LAMBDA r : r.date # NaT /\ r.Moneyness # NaN /\ r.Mid # NaN)
        keys == {<<keyed[i].date, keyed[i].Moneyness>> : i \in 1..Len(keyed)}
    IN  [k \in keys |->
            Mean(LET group == SelectSeq(keyed, LAMBDA r : <<r.date, r.Moneyness>> = k)
                 IN  Tup([i \in 1..Len(group) |-> group[i].Mid]))]

\* the values of a column in order of first appearance: Series.unique()
RECURSIVE Unique(_)
Unique(q) ==
    IF Len(q) = 0 THEN <<>>
    ELSE LET front == Unique(SubSeq(q, 1, Len(q) - 1))
         IN  IF q[Len(q)] \in Range(front) THEN front ELSE Append(front, q[Len(q)])

\* the text of a number of hundredths as Python writes the float
FloatStr(n) ==
    LET m == IF n < 0 THEN -n ELSE n
        frac == m % 100
    IN  (IF n < 0 THEN <<"-">> ELSE <<>>) \o Str(ToString(m \div 100)) \o <<".">>
            \o (IF frac % 10 = 0 THEN Str(ToString(frac \div 10))
                ELSE IF frac < 10 THEN <<"0">> \o Str(ToString(frac))
                ELSE Str(ToString(frac)))

\* the matrix file pivot.to_csv writes: a date column and one column for each
\* moneyness, one row for each date
MatrixFile(pivot) ==
    LET dates == {k[1] : k \in DOMAIN pivot}
        ordered == Sorted({FormatDate(d) : d \in dates})
    IN  [kind |-> "ok",
         cols |-> {Str("date")} \cup {FloatStr(k[2]) : k \in DOMAIN pivot},
         rows |-> Tup([i \in 1..Len(ordered) |->
                     [Row(<<>>, <<>>, <<>>, <<>>, <<>>) EXCEPT !.date = ordered[i]]]),
         matrix |-> pivot]

\* the image plt.savefig writes
ImageFile == [kind |-> "garbage", cols |-> {}, rows |-> <<>>]

\* fname of a monthly and of a yearly surface
SurfaceMonthlyName(a, month) ==
    Replace(a.target_curve, " ", "_") \o <<"_">> \o month \o Str("_surface")

SurfaceYearlyName(a, year) ==
    Replace(a.target_curve, " ", "_") \o <<"_">> \o year \o Str("_YEARLY_surface")

\* the rows of a period: the target curve, compared exactly, and the period
SurfaceRowsOfMonth(rows, a, month) ==
    SelectSeq(rows, LAMBDA r : r.Basis = a.target_curve /\ r.month = month)

\* a yearly selection that takes the rows of January only
SurfaceRowsOfJanuary(rows, a, year) ==
    SelectSeq(rows, LAMBDA r :
        r.Basis = a.target_curve /\ r.year = year /\ r.month = year \o Str("-01"))

SurfaceRowsOfYear(rows, a, year) ==
    SelectSeq(rows, LAMBDA r : r.Basis = a.target_curve /\ r.year = year)

\* a pass that writes the plot and leaves out the matrix
SurfaceWritePlotOnly(dir, fname, rows) ==
    IF Len(rows) = 0 \/ DOMAIN PivotTable(rows) = {}
    THEN dir
    ELSE WriteFile(dir, fname \o Str(".png"), ImageFile)

\* one pass of a loop over the periods: the plot and the matrix are written
\* unless the period has no row or the pivot is empty
SurfaceWrite(dir, fname, rows) ==
    IF Len(rows) = 0 \/ DOMAIN PivotTable(rows) = {}
    THEN dir
    ELSE WriteFile(WriteFile(dir, fname \o Str(".png"), ImageFile),
                   fname \o Str("_data.csv"), MatrixFile(PivotTable(rows)))

\* the loop over df_all['month'].unique()
RECURSIVE SurfaceMonthly(_, _, _, _)
SurfaceMonthly(dir, months, rows, a) ==
    IF Len(months) = 0 THEN dir
    ELSE SurfaceMonthly(SurfaceWrite(dir, SurfaceMonthlyName(a, Head(months)),
                                     SurfaceRowsOfMonth(rows, a, Head(months))),
                        Tail(months), rows, a)

\* the loop over df_all['year'].unique()
RECURSIVE SurfaceYearly(_, _, _, _)
SurfaceYearly(dir, years, rows, a) ==
    IF Len(years) = 0 THEN dir
    ELSE SurfaceYearly(SurfaceWrite(dir, SurfaceYearlyName(a, Head(years)),
                                    SurfaceRowsOfYear(rows, a, Head(years))),
                       Tail(years), rows, a)

\* the periods of a run that get a surface: the scope, the period and fname
SurfaceMade(rows, a) ==
    {[scope |-> "month", period |-> m, fname |-> SurfaceMonthlyName(a, m)] :
        m \in {x \in {rows[i].month : i \in 1..Len(rows)} :
                  DOMAIN PivotTable(SurfaceRowsOfMonth(rows, a, x)) # {}}}
    \cup
    {[scope |-> "year", period |-> y, fname |-> SurfaceYearlyName(a, y)] :
        y \in {x \in {rows[i].year : i \in 1..Len(rows)} :
                  DOMAIN PivotTable(SurfaceRowsOfYear(rows, a, x)) # {}}}

(***************************************************************************)
(* The inputs of the filter stage                                          *)
(***************************************************************************)
FullHeader == {Str("Basis"), Str("Type"), Str("Call/Put"), Str("Curve_Date"), Str("Mid")}

\* the rows input files are made of
RawRows ==
    { Row(Str("NYMEX"), Str("ATM"), Str("CALL"), Str("2024-01-05"), Str("0.2")),
      Row(Str(" nymex"), Str("atm"), Str("call"), Str("2024-01-05"), Str("0.24")),
      Row(Str("HH"), Str("ATM"), Str("CALL"), Str("2024-01-05"), Str("0.2")),
      Row(Str("NYMEX"), Str("HIST"), Str("EWMA"), Str("2024-02-10"), Str("0.3")),
      Row(Str("NYMEX"), Str("ATM"), Str("CALL"), Str("2023-01-07"), Str("0.2")),
      Row(Str("NYMEX"), Str("ATM"), Str("CALL"), Str("n/a"), Str("0.2")) }

RECURSIVE SeqsUpTo(_, _)
SeqsUpTo(S, n) ==
    IF n = 0 THEN {<<>>}
    ELSE LET shorter == SeqsUpTo(S, n - 1)
         IN  shorter \cup {Append(q, x) : q \in shorter, x \in S}

\* the arguments the filters are called with
ExtractArgs ==
    { [year |-> Str("2023"), curves |-> <<Str("NYMEX")>>, strikes |-> AppStrikes,
       month |-> <<>>],
      [year |-> Str("2024"), curves |-> <<Str("NYMEX")>>, strikes |-> AppStrikes,
       month |-> Str("01")] }

VolArgs ==
    { [year |-> Str("2024"), basis_filter |-> <<Str("NYMEX")>>, type_filter |-> Str("hist"),
       callput_filter |-> <<>>, month |-> <<>>, start_date |-> <<>>, end_date |-> <<>>],
      [year |-> Str("2024"), basis_filter |-> <<Str("NYMEX")>>, type_filter |-> <<>>,
       callput_filter |-> <<>>, month |-> <<>>,
       start_date |-> Str("2023-01-01"), end_date |-> Str("2024-12-31")] }

\* the walk before its first file: an empty file_dict, no row kept
NoRows == [dict |-> <<>>, kept |-> <<>>]

NoRun == [op |-> "none", args |-> <<>>, status |-> "ok", dict |-> <<>>, kept |-> <<>>,
          written |-> {}, emptyOut |-> TRUE]

\* the input folder: two files that share up to MaxRows rows in every way,
\* and a file that is no CSV; os.walk yields them in one order, the other
\* orders being the same folders with the names of the files exchanged
Init ==
    /\ \E rows \in SeqsUpTo(RawRows, MaxRows) : \E k \in 0..Len(rows) :
          fs = [d \in Dirs |->
                  IF d = "in"
                  THEN (Str("a.csv") :> File("ok", FullHeader, SubSeq(rows, 1, k)))
                       @@ (Str("b.csv") :> File("ok", FullHeader, SubSeq(rows, k + 1, Len(rows))))
                       @@ (Str("readme.txt") :> File("garbage", {}, <<>>))
                  ELSE NoFiles]
    /\ nested \in BOOLEAN
    /\ order = <<Str("a.csv"), Str("readme.txt"), Str("b.csv")>>
    /\ last = NoRun
    /\ runs = 0

(***************************************************************************)
(* The operations                                                          *)
(***************************************************************************)
\* extract_curve_data(input_folder, output_folder, year, target_curves,
\*                    target_strikes, month)
RunExtract(a) ==
    /\ runs < MaxRuns
    /\ \E walk \in {ExtractWalk(NoRows, WalkFiles(fs, nested, order), fs, a)} :
       \E names \in {ExtractMonthlyNames(walk.dict)} :
       \E out1 \in {WriteMonthly(fs["out"], walk.dict, names)} :
       \E raises \in {ExtractCombineRaises(out1)} :
          /\ fs' = [fs EXCEPT !["out"] = IF raises THEN out1
                                         ELSE ExtractCombine(out1, a.year)]
          /\ last' = [op |-> "extract", args |-> a,
                      status |-> IF raises THEN "raised" ELSE "ok",
                      dict |-> walk.dict, kept |-> walk.kept,
                      written |-> Range(names) \cup
                                  (IF raises \/ ExtractMonthlyFiles(out1) = <<>>
                                   THEN {} ELSE {ExtractCombinedName(a.year)}),
                      emptyOut |-> DOMAIN fs["out"] = {}]
    /\ runs' = runs + 1
    /\ UNCHANGED <<nested, order>>

\* filter_vol_data(input_folder, output_folder, year, basis_filter, type_filter,
\*                 callput_filter, suffix, month, start_date, end_date)
RunFilterVol(a) ==
    /\ runs < MaxRuns
    /\ \E walk \in {VolWalk(NoRows, WalkFiles(fs, nested, order), fs, a)} :
       \E names \in {VolMonthlyNames(walk.dict, a)} :
       \E out1 \in {WriteMonthly(fs["out"], walk.dict, names)} :
          IF walk.raised
          THEN /\ fs' = fs
               /\ last' = [op |-> "filter_vol", args |-> a, status |-> "raised",
                           dict |-> walk.dict, kept |-> walk.kept,
                           written |-> {},
                           emptyOut |-> DOMAIN fs["out"] = {}]
          ELSE /\ fs' = [fs EXCEPT !["out"] = VolCombine(out1, a)]
               /\ last' = [op |-> "filter_vol", args |-> a, status |-> "ok",
                           dict |-> walk.dict, kept |-> walk.kept,
                           written |-> Range(names) \cup
                                       (IF VolMonthlyFiles(out1) = <<>>
                                        THEN {} ELSE {VolCombinedName(a)}),
                           emptyOut |-> DOMAIN fs["out"] = {}]
    /\ runs' = runs + 1
    /\ UNCHANGED <<nested, order>>

\* generate_vol_surfaces(data_folder, output_folder, target_curve,
\*                       target_month, date_range, start_date, end_date)
RunSurface(a) ==
    /\ runs < MaxRuns
    /\ \E load \in {SurfaceLoad(NothingLoaded, ListDir(fs, a.data_folder, order),
                                fs[a.data_folder], a)} :
       \E all \in {IF load.raised THEN <<>> ELSE SurfaceAll(load.rows, a)} :
       \E raises \in {load.raised \/ (Len(all) > 0 /\ ~load.hasBasis)} :
       \E made \in {IF raises THEN {} ELSE SurfaceMade(all, a)} :
          /\ fs' = [fs EXCEPT ![a.output_folder] =
                       IF raises THEN @
                       ELSE SurfaceYearly(
                                SurfaceMonthly(@, Unique(Tup([i \in 1..Len(all) |-> all[i].month])), all, a),
                                Unique(Tup([i \in 1..Len(all) |-> all[i].year])), all, a)]
          /\ last' = [op |-> "surface", args |-> a,
                      status |-> IF raises THEN "raised" ELSE "ok",
                      dict |-> <<>>, kept |-> all,
                      written |-> UNION {{m.fname \o Str(".png"), m.fname \o Str("_data.csv")} :
                                            m \in made},
                      emptyOut |-> DOMAIN fs[a.output_folder] = {},
                      made |-> made]
    /\ runs' = runs + 1
    /\ UNCHANGED <<nested, order>>

Next ==
    \/ \E a \in ExtractArgs : RunExtract(a)
    \/ \E a \in VolArgs : RunFilterVol(a)

Spec == Init /\ [][Next]_vars

(***************************************************************************)
(* The surface builder on an arbitrary data folder                         *)
(***************************************************************************)
\* the rows the files of a data folder are made of
SurfaceRawRows ==
    { Row(Str("NYMEX"), Str("ATM"), Str("CALL"), Str("2024-01-05"), Str("0.2")),
      Row(Str("NYMEX"), Str("ATM"), Str("CALL"), Str("2024-01-05"), Str("0.24")),
      Row(Str("NYMEX"), Str("ATM + $0.25"), Str("CALL"), Str("2024-02-10"), Str("0.3")),
      Row(Str("NYMEX"), Str("ATM - $0.50"), Str("CALL"), Str("2023-01-07"), Str("0.25")),
      Row(Str("NYMEX"), Str("HIST"), Str("CALL"), Str("2024-01-05"), Str("0.2")),
      Row(Str("HH"), Str("ATM"), Str("CALL"), Str("2024-01-05"), Str("0.2")),
      Row(Str("NYMEX"), Str("ATM"), Str("CALL"), Str("2024-01-05"), Str("n/a")),
      Row(Str("NYMEX"), Str("ATM"), Str("CALL"), Str("n/a"), Str("0.2")) }

\* the headers of the second file: complete, or with one column missing
SurfaceHeaders ==
    {FullHeader} \cup {FullHeader \ {Str(c)} : c \in {"Type", "Curve_Date", "Basis"}}

\* the arguments the surface builder is called with: its output beside the
\* data folder or inside it, without dates, with date_range or with
\* start_date and end_date
SurfaceArgs ==
    { [data_folder |-> "in", output_folder |-> "surf", target_curve |-> Str("NYMEX"),
       target_month |-> <<>>, date_range |-> <<>>, start_date |-> <<>>, end_date |-> <<>>],
      [data_folder |-> "in", output_folder |-> "in", target_curve |-> Str("NYMEX"),
       target_month |-> <<>>, date_range |-> <<>>,
       start_date |-> Str("2024-01-01"), end_date |-> Str("2024-12-31")],
      [data_folder |-> "in", output_folder |-> "surf", target_curve |-> Str("NYMEX"),
       target_month |-> <<>>, date_range |-> <<Str("2024-01-01"), Str("2024-01-31")>>,
       start_date |-> <<>>, end_date |-> <<>>] }

\* the data folder: a file with every column, a second file that may lack
\* a column, sharing up to MaxRows rows in every way, and a file that is no
\* CSV; os.listdir yields the second file first
InitSurface ==
    /\ \E rows \in SeqsUpTo(SurfaceRawRows, MaxRows) : \E k \in 0..Len(rows) :
       \E header \in SurfaceHeaders :
          fs = [d \in Dirs |->
                  IF d = "in"
                  THEN (Str("a.csv") :> File("ok", FullHeader, SubSeq(rows, 1, k)))
                       @@ (Str("b.csv") :> File("ok", header, SubSeq(rows, k + 1, Len(rows))))
                       @@ (Str("readme.txt") :> File("garbage", {}, <<>>))
                  ELSE NoFiles]
    /\ nested = FALSE
    /\ order = <<Str("readme.txt"), Str("b.csv"), Str("a.csv")>>
    /\ last = NoRun
    /\ runs = 0

NextSurface == \E a \in SurfaceArgs : RunSurface(a)

SpecSurface == InitSurface /\ [][NextSurface]_vars

(***************************************************************************)
(* Properties of the filter stage                                          *)
(***************************************************************************)
IsFilterRun == last.op \in {"extract", "filter_vol"}

\* the target curve list of the last filter invocation
TargetCurves == IF last.op = "extract" THEN last.args.curves ELSE last.args.basis_filter

\* the rows of all groups of an entry of file_dict, in order
EntryRows(e) == Flatten(Tup([i \in 1..Len(e.groups) |-> e.groups[i].rows]))

\* the rows of all buckets
BucketRows == Flatten(Tup([i \in 1..Len(last.dict) |-> EntryRows(last.dict[i])]))

Count(seq, v) == Cardinality({i \in 1..Len(seq) : seq[i] = v})

\* the rows the input folder holds
InputRows == UNION {Range(fs["in"][n].rows) : n \in DOMAIN fs["in"]}

\* C1: a filter run into an empty output folder writes no row whose Basis,
\* compared without regard to case, is outside the target curve list, into
\* no monthly artifact and not into the combined artifact.
C1_FilterPrecision ==
    (IsFilterRun /\ last.emptyOut) =>
        \A f \in last.written : \A r \in Range(fs["out"][f].rows) :
            Upper(r.Basis) \in UpperAll(TargetCurves)

\* C1 happens: a first run wrote artifacts although the input holds a row of
\* a curve outside the target list
C1_Witness ==
    /\ IsFilterRun
    /\ last.emptyOut
    /\ Cardinality(last.written) >= 2
    /\ \E r \in InputRows : Upper(Strip(r.Basis)) \notin UpperAll(TargetCurves)

\* C2: every row of the bucket "YYYY-MM" has a Curve_Date of year YYYY and
\* month MM, no two buckets have the same key, and every row that survived
\* the filter is in the buckets exactly once.
C2_Grouping ==
    IsFilterRun =>
        /\ \A i \in 1..Len(last.dict) : \A r \in Range(EntryRows(last.dict[i])) :
              /\ Len(last.dict[i].key) = 7
              /\ ParseInt(SubSeq(last.dict[i].key, 1, 4)) = YearOf(ParseDate(r.Curve_Date))
              /\ ParseInt(SubSeq(last.dict[i].key, 6, 7)) = MonthOf(ParseDate(r.Curve_Date))
        /\ \A i, j \in 1..Len(last.dict) : last.dict[i].key = last.dict[j].key => i = j
        /\ Len(BucketRows) = Len(last.kept)
        /\ \A r \in Range(last.kept) : Count(BucketRows, r) = Count(last.kept, r)

\* C2 happens: the surviving rows of a run fall into two buckets
C2_Witness ==
    /\ IsFilterRun
    /\ Len(last.dict) >= 2
    /\ Len(last.kept) >= 2

\* the monthly artifacts of year y in the output folder of extract_curve_data
MonthlyOfYear(dir, y) ==
    {f \in DOMAIN dir : EndsWith(f, Str(".csv")) /\ MatchMonthly(f) /\ SubSeq(f, 1, 4) = y}

\* C3: after a filter run for year Y the rows of the combined artifact of Y
\* are the rows of the monthly artifacts of year Y in the output folder, and
\* of no other year.
C3_CombinedIsUnionOfYear ==
    (last.op = "extract" /\ last.status = "ok"
        /\ ExtractCombinedName(last.args.year) \in last.written) =>
        Range(ReadCsv(fs["out"][ExtractCombinedName(last.args.year)]).rows)
            = UNION {Range(ReadCsv(fs["out"][f]).rows) :
                        f \in MonthlyOfYear(fs["out"], last.args.year)}

\* the name of the monthly artifact of the i-th bucket of the last run
ArtifactName(i) ==
    IF last.op = "extract"
    THEN ExtractMonthlyName(last.dict[i].key)
    ELSE VolMonthlyName(last.dict[i].key, last.args)

\* C4: one artifact per year-month key with surviving rows; it holds every
\* row of the key in discovery order; two keys never share an artifact.
C4_OneArtifactPerKey ==
    (IsFilterRun /\ last.status = "ok") =>
        /\ \A i, j \in 1..Len(last.dict) : ArtifactName(i) = ArtifactName(j) => i = j
        /\ \A i \in 1..Len(last.dict) :
              /\ ArtifactName(i) \in DOMAIN fs["out"]
              /\ fs["out"][ArtifactName(i)].rows = EntryRows(last.dict[i])

\* C5: a second run of extract_curve_data with the same arguments leaves
\* every monthly artifact as the first run left it.
C5_Idempotent ==
    [][(/\ last.op = "extract"
        /\ last.status = "ok"
        /\ last'.op = "extract"
        /\ last'.args = last.args
        /\ runs' = runs + 1)
       => \A f \in DOMAIN fs'["out"] :
             MatchMonthly(f) => (f \in DOMAIN fs["out"] /\ fs'["out"][f] = fs["out"][f])]_vars

(***************************************************************************)
(* The end-to-end scenario: the filter stage, then the surface builder     *)
(***************************************************************************)
\* the number of January rows of the first file and of February rows of the
\* second
E2EJanRows == 5
E2EFebRows == 3

\* valid rows of NYMEX in January and in February 2024
JanRows ==
    { Row(Str("NYMEX"), Str("ATM"), Str("CALL"), Str("2024-01-05"), Str("0.2")),
      Row(Str(" NYMEX"), Str("ATM + $0.25"), Str("CALL"), Str("2024-01-08"), Str("0.24")) }

FebRows ==
    { Row(Str("NYMEX"), Str("ATM"), Str("CALL"), Str("2024-02-10"), Str("0.3")),
      Row(Str("NYMEX"), Str("atm - $0.50"), Str("PUT"), Str("2024-02-12"), Str("0.25")) }

E2EExtractArgs ==
    [year |-> Str("2024"), curves |-> <<Str("NYMEX")>>, strikes |-> AppStrikes, month |-> <<>>]

E2ESurfaceArgs ==
    [data_folder |-> "out", output_folder |-> "surf", target_curve |-> Str("NYMEX"),
     target_month |-> <<>>, date_range |-> <<>>, start_date |-> <<>>, end_date |-> <<>>]

InitE2E ==
    /\ \E jan \in [1..E2EJanRows -> JanRows] : \E feb \in [1..E2EFebRows -> FebRows] :
          fs = [d \in Dirs |->
                  IF d = "in"
                  THEN (Str("a.csv") :> File("ok", FullHeader, Tup(jan)))
                       @@ (Str("b.csv") :> File("ok", FullHeader, Tup(feb)))
                  ELSE NoFiles]
    /\ nested \in BOOLEAN
    /\ order \in {<<Str("a.csv"), Str("b.csv")>>, <<Str("b.csv"), Str("a.csv")>>}
    /\ last = NoRun
    /\ runs = 0

\* the filter stage runs once, into the empty output folder
E2EFilter == DOMAIN fs["out"] = {} /\ RunExtract(E2EExtractArgs)

\* the surface builder runs on the output folder of the filter stage
E2ESurface == DOMAIN fs["out"] # {} /\ RunSurface(E2ESurfaceArgs)

NextE2E == E2EFilter \/ E2ESurface

SpecE2E == InitE2E /\ [][NextE2E]_vars

\* C6: the filter stage writes 2024-01.csv with the January rows, 2024-02.csv
\* with the February rows and 2024_combined.csv with all of them; the
\* surface builder then writes one plot and one matrix for January, for
\* February and for the year 2024, and nothing else.
C6_EndToEnd ==
    /\ last.op = "extract" =>
          /\ DOMAIN fs["out"] = {Str("2024-01.csv"), Str("2024-02.csv"), Str("2024_combined.csv")}
          /\ Len(fs["out"][Str("2024-01.csv")].rows) = E2EJanRows
          /\ Len(fs["out"][Str("2024-02.csv")].rows) = E2EFebRows
          /\ Len(fs["out"][Str("2024_combined.csv")].rows) = E2EJanRows + E2EFebRows
    /\ last.op = "surface" =>
          /\ last.status = "ok"
          /\ DOMAIN fs["surf"] =
                {Str("NYMEX_2024-01_surface.png"), Str("NYMEX_2024-01_surface_data.csv"),
                 Str("NYMEX_2024-02_surface.png"), Str("NYMEX_2024-02_surface_data.csv"),
                 Str("NYMEX_2024_YEARLY_surface.png"), Str("NYMEX_2024_YEARLY_surface_data.csv")}
          /\ \A n \in DOMAIN fs["surf"] :
                EndsWith(n, Str("_data.csv")) => DOMAIN fs["surf"][n].matrix # {}

\* C6 happens: both stages ran and the surface folder holds six files
C6_Witness ==
    /\ last.op = "surface"
    /\ Len(fs["out"][Str("2024_combined.csv")].rows) = E2EJanRows + E2EFebRows
    /\ Cardinality(DOMAIN fs["surf"]) = 6

(***************************************************************************)
(* Properties of the surface builder                                       *)
(***************************************************************************)
SurfaceRan == last.op = "surface"

\* the matrix written for a period of the last run
MatrixOf(m) == fs[last.args.output_folder][m.fname \o Str("_data.csv")].matrix

\* the rows of df_all the last run selected for a period
SelectedRows(m) ==
    SelectSeq(last.kept, LAMBDA r :
        /\ r.Basis = last.args.target_curve
        /\ IF m.scope = "month" THEN r.month = m.period ELSE r.year = m.period)

\* the numeric Mid values of the selected rows of a cell
CellValues(m, k) ==
    LET group == SelectSeq(SelectedRows(m), LAMBDA r :
                     r.date = k[1] /\ r.Moneyness = k[2] /\ r.Mid # NaN)
    IN  Tup([i \in 1..Len(group) |-> group[i].Mid])

\* the text of the date of a row of a file with the given header, or the
\* empty text when the header has no date column
DateText(r, cols) ==
    IF Str("date") \in cols THEN r.date
    ELSE IF Str("Curve_Date") \in cols THEN r.Curve_Date
    ELSE <<>>

\* the dates of the rows of a data folder that have the target curve, a
\* mapped moneyness, a valid date inside the date range and a numeric Mid
ValidSurfaceDates(dir, a) ==
    UNION { LET cols == CleanHeader(dir[n].cols)
            IN  {ParseDate(DateText(r, cols)) : r \in
                   {x \in Range(dir[n].rows) :
                      /\ {Str("Basis"), Str("Type"), Str("Mid")} \subseteq cols
                      /\ x.Basis = a.target_curve
                      /\ x.Type \in DOMAIN type_to_moneyness
                      /\ ToNumeric(x.Mid) # NaN
                      /\ ParseDate(DateText(x, cols)) # NaT
                      /\ SurfaceInRange([date |-> ParseDate(DateText(x, cols))], a)}} :
            n \in {x \in DOMAIN dir : EndsWith(x, Str(".csv")) /\ dir[x].kind = "ok"} }

\* C7: a run of the surface builder writes exactly one plot and one matrix
\* for every month and for every year of the target curve that has a row
\* with a mapped moneyness, a valid date in the date range and a numeric Mid,
\* and none for any other period.
C7_OnePairPerPeriod ==
    (SurfaceRan /\ last.args.output_folder # last.args.data_folder) =>
        LET dates == ValidSurfaceDates(fs[last.args.data_folder], last.args)
        IN  /\ \A d \in dates :
                  /\ Cardinality({m \in last.made :
                        m.scope = "month" /\ m.period = PeriodStr(d)}) = 1
                  /\ Cardinality({m \in last.made :
                        m.scope = "year" /\ SubSeq(m.period, 1, 4) = YearStr(d)}) = 1
            /\ \A m \in last.made : \E d \in dates :
                  IF m.scope = "month" THEN m.period = PeriodStr(d)
                  ELSE SubSeq(m.period, 1, 4) = YearStr(d)
            /\ \A m \in last.made :
                  {m.fname \o Str(".png"), m.fname \o Str("_data.csv")}
                      \subseteq DOMAIN fs[last.args.output_folder]
            /\ Cardinality(last.written) = 2 * Cardinality(last.made)

\* C8: "ATM" maps to 0.00, "ATM - $0.50" to -0.50 and "ATM + $0.25" to 0.25;
\* a row whose Type is no key of the table has no moneyness; every cell and
\* every column of a written matrix comes from a row with a mapped Type; and
\* the run completes when every file of the data folder it reads has the
\* columns Type, Mid and Basis, whatever the labels of its rows.
C8_Moneyness ==
    /\ MapMoneyness(Str("ATM")) = 0
    /\ MapMoneyness(Str("ATM - $0.50")) = -50
    /\ MapMoneyness(Str("ATM + $0.25")) = 25
    /\ SurfaceRan =>
          /\ \A r \in Range(last.kept) :
                r.Type \notin DOMAIN type_to_moneyness => r.Moneyness = NaN
          /\ \A m \in last.made :
                /\ \A k \in DOMAIN MatrixOf(m) :
                      \E r \in Range(SelectedRows(m)) :
                         /\ r.Type \in DOMAIN type_to_moneyness
                         /\ type_to_moneyness[r.Type] = k[2]
                         /\ r.date = k[1]
                /\ fs[last.args.output_folder][m.fname \o Str("_data.csv")].cols
                      = {Str("date")} \cup
                        {FloatStr(type_to_moneyness[r.Type]) :
                            r \in {x \in Range(SelectedRows(m)) :
                                     /\ x.Type \in DOMAIN type_to_moneyness
                                     /\ x.date # NaT
                                     /\ x.Mid # NaN}}
          /\ (\A n \in DOMAIN fs[last.args.data_folder] :
                 (EndsWith(n, Str(".csv")) /\ ~SurfaceReadFails(fs[last.args.data_folder][n]))
                    => {Str("Type"), Str("Mid"), Str("Basis")}
                          \subseteq CleanHeader(fs[last.args.data_folder][n].cols))
             => last.status = "ok"

\* C8 happens: a run wrote a matrix although a row of the target curve with
\* a valid date and a numeric Mid has a Type that is no key of the table
C8_Witness ==
    /\ SurfaceRan
    /\ last.status = "ok"
    /\ last.made # {}
    /\ \E r \in Range(last.kept) :
          /\ r.Basis = last.args.target_curve
          /\ r.Type \notin DOMAIN type_to_moneyness
          /\ r.date # NaT
          /\ r.Mid # NaN

\* C9: every cell (date, moneyness) of a written matrix is the sum of the Mid
\* values of the selected rows with that date and moneyness over their
\* number; the values 0.20 and 0.24 give 0.22.
C9_CellIsMean ==
    (SurfaceRan /\ last.status = "ok") =>
        \A m \in last.made : \A k \in DOMAIN MatrixOf(m) :
            /\ Len(CellValues(m, k)) > 0
            /\ MatrixOf(m)[k].num * Len(CellValues(m, k))
                  = MatrixOf(m)[k].den * SumSeq(CellValues(m, k))
            /\ CellValues(m, k) \in {<<20, 24>>, <<24, 20>>}
                  => MatrixOf(m)[k] = [num |-> 22, den |-> 1]

\* C9 happens: a cell of a written matrix has the two values 0.20 and 0.24
C9_Witness ==
    /\ SurfaceRan
    /\ last.status = "ok"
    /\ \E m \in last.made : \E k \in DOMAIN MatrixOf(m) :
          CellValues(m, k) \in {<<20, 24>>, <<24, 20>>}

\* C10: a second run of the surface builder with the same arguments
\* completes, as the first did, and leaves every matrix file as it was.
C10_SurfaceIdempotent ==
    [][(/\ last.op = "surface"
        /\ last'.op = "surface"
        /\ last'.args = last.args
        /\ runs' = runs + 1)
       => /\ last.status = "ok"
          /\ last'.status = "ok"
          /\ \A n \in DOMAIN fs'[last.args.output_folder] :
                EndsWith(n, Str("_data.csv"))
                   => /\ n \in DOMAIN fs[last.args.output_folder]
                      /\ fs'[last.args.output_folder][n] = fs[last.args.output_folder][n]]_vars


(***************************************************************************)
(* modules/time_series_plotter.py: the rolling mean and its difference     *)
(***************************************************************************)
\* bounds of the series the rolling mean is explored on: its length and the
\* number of its rows that are NaN
MaxSeriesLen == 12
MaxGaps == 2

\* a cell of a matrix is a fraction [num, den] with den > 0, or this one
\* when it is NaN
NaNCell == [num |-> 0, den |-> 0]

\* a fraction in lowest terms
FracNorm(n, d) ==
    LET g == Gcd(IF n < 0 THEN -n ELSE n, d)
    IN  [num |-> n \div g, den |-> d \div g]

\* the sum of a window's values in place of their mean
WindowSum(cells) ==
    LET RECURSIVE Total(_)
        Total(q) == IF Len(q) = 0 THEN [num |-> 0, den |-> 1]
                    ELSE LET t == Total(Tail(q))
                         IN  FracNorm(Head(q).num * t.den + t.num * Head(q).den,
                                      Head(q).den * t.den)
    IN  Total(cells)

\* the mean of the values of a window, none of them NaN
WindowMean(cells) ==
    LET RECURSIVE Total(_)
        Total(q) == IF Len(q) = 0 THEN [num |-> 0, den |-> 1]
                    ELSE LET t == Total(Tail(q))
                         IN  FracNorm(Head(q).num * t.den + t.num * Head(q).den,
                                      Head(q).den * t.den)
        total == Total(cells)
    IN  FracNorm(total.num, total.den * Len(cells))

\* min_periods with the window in place of the smallest of the three
MinPeriodsIsWindow(rolling_window, rows) == rolling_window

\* min_periods = min(rolling_window, len(pivot), 10)
MinPeriods(rolling_window, rows) ==
    LET m == IF rolling_window < rows THEN rolling_window ELSE rows
    IN  IF m < 10 THEN m ELSE 10

\* column.rolling(window=W, min_periods=mp).mean(): at each row the mean of
\* the values that are not NaN among the last W rows, NaN when there are
\* fewer than mp of them (or none)
RollingColumn(col, rolling_window, min_periods) ==
    Tup([i \in 1..Len(col) |->
        LET first == IF i - rolling_window + 1 < 1 THEN 1 ELSE i - rolling_window + 1
            seen == SelectSeq(SubSeq(col, first, i), LAMBDA c : c # NaNCell)
        IN  IF Len(seen) >= min_periods /\ Len(seen) > 0
            THEN WindowMean(seen)
            ELSE NaNCell])

\* the difference that keeps the first row's value
DiffKeepsFirst(col) ==
    Tup([i \in 1..Len(col) |->
        IF i = 1 THEN col[i]
        ELSE IF col[i] = NaNCell \/ col[i - 1] = NaNCell THEN NaNCell
        ELSE FracNorm(col[i].num * col[i - 1].den - col[i - 1].num * col[i].den,
                      col[i].den * col[i - 1].den)])

\* column.diff(): each row minus the row before it, NaN in the first row and
\* wherever one of the two is NaN
DiffColumn(col) ==
    Tup([i \in 1..Len(col) |->
        IF i = 1 \/ col[i] = NaNCell \/ col[i - 1] = NaNCell THEN NaNCell
        ELSE FracNorm(col[i].num * col[i - 1].den - col[i - 1].num * col[i].den,
                      col[i].den * col[i - 1].den)])

\* a matrix: its dates in ascending order, its column labels in order, and
\* for each label the cells of the column, one for each date
Matrix(index, columns, cell) == [index |-> index, columns |-> columns, cell |-> cell]

\* rolling = pivot.rolling(window=rolling_window, min_periods=min_periods).mean()
RollingMatrix(pivot, rolling_window) ==
    [pivot EXCEPT !.cell =
        [c \in DOMAIN @ |->
            RollingColumn(@[c], rolling_window,
                          MinPeriods(rolling_window, Len(pivot.index)))]]

\* daily_change = rolling.diff()
DailyChange(rolling) ==
    [rolling EXCEPT !.cell = [c \in DOMAIN @ |-> DiffColumn(@[c])]]

(***************************************************************************)
(* modules/time_series_plotter.py: build_vol_time_series                   *)
(***************************************************************************)
\* the body of the loop over the input files: the rows the file adds to
\* all_data (none when the file is passed over or an exception is caught)
\* and the columns of its frame
TSFrame(name, f, a) ==
    LET cols == CleanHeader(f.cols)
        dated == Str("date") \in cols
        loaded == Tup([i \in 1..Len(f.rows) |->
                     [date |-> ParseDate(IF dated THEN f.rows[i].date
                                         ELSE f.rows[i].Curve_Date),
                      Mid |-> ToNumeric(f.rows[i].Mid),
                      Basis |-> IF Str("Basis") \in cols THEN f.rows[i].Basis ELSE <<>>,
                      Contract_Month |-> IF Str("Contract_Month") \in cols
                                         THEN f.rows[i].Contract_Month ELSE <<>>]])
        ranged == IF a.start_date # <<>> /\ a.end_date # <<>>
                  THEN SelectSeq(loaded, LAMBDA r :
                           /\ r.date # NaT
                           /\ r.date >= ParseDate(a.start_date)
                           /\ r.date <= ParseDate(a.end_date))
                  ELSE loaded
    IN  IF \/ ~EndsWith(name, Str(".csv"))
           \/ (a.month # <<>> /\ ~Contains(name, a.month))
           \/ f.kind \notin {"ok", "small"}
           \/ Len(f.rows) = 0
           \/ (~dated /\ Str("Curve_Date") \notin cols)
           \/ Str("Mid") \notin cols
        THEN Frame({}, <<>>)
        ELSE LET kept == SelectSeq(ranged, LAMBDA r : r.Mid # NaN)
             IN  Frame(IF Len(kept) = 0 THEN {} ELSE cols, kept)

\* combined_df = pd.concat(all_data).sort_values('date'): the rows of the
\* files in the order of the walk, then ordered by date with the rows
\* without date last (rows of one date keep their order)
TSCombined(fsys, a, ord) ==
    LET names == ListDir(fsys, a.input_folder, ord)
        frames == Tup([i \in 1..Len(names) |->
                      TSFrame(names[i], fsys[a.input_folder][names[i]], a)])
        all == ConcatFrames(frames)
        RECURSIVE ByDate(_)
        ByDate(D) ==
            IF D = {} THEN <<>>
            ELSE LET d == CHOOSE x \in D : \A y \in D : x <= y
                 IN  SelectSeq(all.rows, LAMBDA r : r.date = d) \o ByDate(D \ {d})
    IN  Frame(all.cols,
              ByDate({all.rows[i].date : i \in 1..Len(all.rows)} \ {NaT})
                  \o SelectSeq(all.rows, LAMBDA r : r.date = NaT))

\* curve = combined_df['Basis'].iloc[0] if 'Basis' in combined_df.columns
\* else curve_name: the first row's Basis, 'nan' when it has none
TSCurve(combined, a) ==
    IF Str("Basis") \notin combined.cols THEN a.curve_name
    ELSE IF combined.rows[1].Basis = <<>> THEN Str("nan")
    ELSE combined.rows[1].Basis

\* a pivot that takes the frame for surface-style only when every row carries
\* a contract month
TSPivotWhenAllRows(combined) ==
    LET surface == /\ Str("Contract_Month") \in combined.cols
                   /\ \A i \in 1..Len(combined.rows) : combined.rows[i].Contract_Month # <<>>
        keyed == SelectSeq(combined.rows, LAMBDA r : r.date # NaT)
        Label(r) == IF surface THEN r.Contract_Month ELSE Str("EWMA_Volatility")
        RECURSIVE Ascending(_)
        Ascending(D) ==
            IF D = {} THEN <<>>
            ELSE LET d == CHOOSE x \in D : \A y \in D : x <= y
                 IN  <<d>> \o Ascending(D \ {d})
        index == Ascending({keyed[i].date : i \in 1..Len(keyed)})
        columns == IF surface THEN Sorted({keyed[i].Contract_Month : i \in 1..Len(keyed)})
                   ELSE <<Str("EWMA_Volatility")>>
    IN  Matrix(index, columns,
               [c \in Range(columns) |->
                   Tup([i \in 1..Len(index) |->
                       LET group == SelectSeq(keyed, LAMBDA r :
                                        r.date = index[i] /\ Label(r) = c)
                       IN  IF Len(group) = 0 THEN NaNCell
                           ELSE Mean(Tup([j \in 1..Len(group) |-> group[j].Mid]))])])

\* the pivot: one column for each contract month when the frame has the
\* column Contract_Month (pivot_table leaves out the rows without date or
\* without contract month), else the single column 'EWMA_Volatility'
\* (groupby('date') leaves out the rows without date); a cell is the mean of
\* Mid over its rows, NaN when it has none; the index is sorted
TSPivot(combined) ==
    LET surface == Str("Contract_Month") \in combined.cols
        keyed == SelectSeq(combined.rows, LAMBDA r :
                     r.date # NaT /\ (surface => r.Contract_Month # <<>>))
        Label(r) == IF surface THEN r.Contract_Month ELSE Str("EWMA_Volatility")
        RECURSIVE Ascending(_)
        Ascending(D) ==
            IF D = {} THEN <<>>
            ELSE LET d == CHOOSE x \in D : \A y \in D : x <= y
                 IN  <<d>> \o Ascending(D \ {d})
        index == Ascending({keyed[i].date : i \in 1..Len(keyed)})
        columns == IF surface THEN Sorted({keyed[i].Contract_Month : i \in 1..Len(keyed)})
                   ELSE <<Str("EWMA_Volatility")>>
    IN  Matrix(index, columns,
               [c \in Range(columns) |->
                   Tup([i \in 1..Len(index) |->
                       LET group == SelectSeq(keyed, LAMBDA r :
                                        r.date = index[i] /\ Label(r) = c)
                       IN  IF Len(group) = 0 THEN NaNCell
                           ELSE Mean(Tup([j \in 1..Len(group) |-> group[j].Mid]))])])

\* the files of one run: the workbook with its three sheets, and the charts
\* of the column 'EWMA_Volatility' or of each contract month
TSArtifacts(combined, pivot, a) ==
    LET stem == TSCurve(combined, a) \o <<"_">>
                    \o (IF a.month # <<>> THEN a.month
                        ELSE a.curve_name \o Str("_combined"))
        rolling == RollingMatrix(pivot, a.rolling_window)
        book == [kind |-> "garbage", cols |-> {}, rows |-> <<>>,
                 sheets |-> [Original_TS |-> pivot, Rolling |-> rolling,
                             Daily_Change |-> DailyChange(rolling)]]
        charts == IF Str("Contract_Month") \notin combined.cols
                  THEN {stem \o Str("_timeseries_rolling.png"),
                        stem \o Str("_dailychange.png")}
                  ELSE UNION { {stem \o <<"_">> \o c \o Str("_timeseries_rolling.png"),
                                stem \o <<"_">> \o c \o Str("_dailychange.png")} :
                               c \in Range(pivot.columns) }
    IN  [n \in {stem \o Str("_time_series.xlsx")} \cup charts |->
            IF n \in charts THEN ImageFile ELSE book]

\* build_vol_time_series(input_folder, iv_surface_folder, output_folder,
\* curve_name, month, rolling_window, start_date, end_date): nothing is
\* written when no file adds a row; rolling.min().iloc[0] raises before
\* anything is written when the pivot has no column
RunTimeSeries(a) ==
    /\ runs < MaxRuns
    /\ \E combined \in {TSCombined(fs, a, order)} :
       \E pivot \in {IF Len(combined.rows) = 0 THEN Matrix(<<>>, <<>>, <<>>)
                     ELSE TSPivot(combined)} :
       \E rolling \in {RollingMatrix(pivot, a.rolling_window)} :
         LET raises == Len(combined.rows) > 0 /\ Len(pivot.columns) = 0
             files == IF Len(combined.rows) = 0 \/ raises THEN NoFiles
                      ELSE TSArtifacts(combined, pivot, a)
         IN  /\ fs' = [fs EXCEPT ![a.output_folder] = files @@ @]
             /\ last' = [op |-> "timeseries", args |-> a,
                         status |-> IF raises THEN "raised" ELSE "ok",
                         combined |-> combined,
                         rolling_window |-> a.rolling_window,
                         pivot |-> pivot, rolling |-> rolling,
                         daily_change |-> DailyChange(rolling),
                         written |-> DOMAIN files]
    /\ runs' = runs + 1
    /\ UNCHANGED <<nested, order>>

(***************************************************************************)
(* The time-series builder on a folder of two filtered files               *)
(***************************************************************************)
\* the header of an EWMA-style filtered file and of a surface-style one
EwmaHeader == FullHeader \cup DateColumns
SurfaceStyleHeader == EwmaHeader \cup {Str("Contract_Month")}

\* the headers of the two files 2024-01.csv and 2024-02.csv: both styles,
\* mixed styles, and a second file without Mid, without any date column or
\* without Basis
TSHeaders ==
    { <<EwmaHeader, EwmaHeader>>,
      <<SurfaceStyleHeader, SurfaceStyleHeader>>,
      <<EwmaHeader, SurfaceStyleHeader>>,
      <<SurfaceStyleHeader, SurfaceStyleHeader \ {Str("Mid")}>>,
      <<EwmaHeader, EwmaHeader \ {Str("date"), Str("Curve_Date")}>>,
      <<SurfaceStyleHeader, SurfaceStyleHeader \ {Str("Basis")}>>,
      <<EwmaHeader \ {Str("Basis")}, EwmaHeader \ {Str("Basis")}>> }

\* rows of filtered files: two of one date and contract month, another date
\* and contract month, a row without contract month, a row without a date
\* that parses, a row whose Mid is no number, and a row of another curve
TSRawRows ==
    LET R(basis, date, mid, cm) ==
            [Row(Str(basis), Str("HIST"), Str("EWMA"), Str(date), Str(mid))
                 EXCEPT !.date = Str(date), !.Contract_Month = Str(cm)]
    IN  { R("NYMEX", "2024-01-05", "0.20", "2024-03"),
          R("NYMEX", "2024-01-05", "0.30", "2024-03"),
          R("NYMEX", "2024-01-08", "0.24", "2024-04"),
          R("NYMEX", "2024-02-01", "0.5", ""),
          R("NYMEX", "bad", "0.10", "2024-03"),
          R("ICE", "2024-01-09", "n/a", "2024-03"),
          R("ICE", "2024-01-05", "0.40", "2024-03") }

\* the invocations: the whole folder under the window 2, the files of one
\* month under the window 1, and a date range under the default window
TSArgs ==
    { [input_folder |-> "in", output_folder |-> "out", curve_name |-> Str("NYMEX"),
       month |-> c[1], rolling_window |-> c[2], start_date |-> c[3], end_date |-> c[4]] :
        c \in { <<Str(""), 2, Str(""), Str("")>>,
                <<Str("2024-01"), 1, Str(""), Str("")>>,
                <<Str(""), 21, Str("2024-01-01"), Str("2024-01-31")>> } }

\* the folder holds the rows of a sequence split over the two files; the
\* walk yields the files by name
InitTS ==
    /\ \E rows \in SeqsUpTo(TSRawRows, MaxRows) :
       \E k \in 0..Len(rows) :
       \E h \in TSHeaders :
         fs = [d \in Dirs |->
                 IF d = "in"
                 THEN (Str("2024-01.csv") :> File("ok", h[1], SubSeq(rows, 1, k)))
                      @@ (Str("2024-02.csv") :> File("ok", h[2], SubSeq(rows, k + 1, Len(rows))))
                 ELSE NoFiles]
    /\ nested = FALSE
    /\ order = <<Str("2024-01.csv"), Str("2024-02.csv")>>
    /\ last = NoRun
    /\ runs = 0

\* one invocation of the builder on the folder
TimeSeriesOnce == runs = 0 /\ \E a \in TSArgs : RunTimeSeries(a)

SpecTS == InitTS /\ [][TimeSeriesOnce]_vars

(***************************************************************************)
(* The rolling mean on bounded matrices of one column                      *)
(***************************************************************************)
\* the windows explored: the smallest, a short one and the default
Windows == {1, 3, 21}

\* the column 'EWMA_Volatility' of n rows, in hundredths: a constant level
\* or one that rises from row to row, NaN outside the rows of present
SeriesColumn(n, present, rising) ==
    Tup([i \in 1..n |->
        IF i \in present
        THEN [num |-> IF rising THEN 20 + 3 * i * i ELSE 20, den |-> 1]
        ELSE NaNCell])

\* the matrices the rolling mean is explored on: consecutive dates and one
\* column
SeriesMatrices ==
    UNION { { Matrix(Tup([i \in 1..n |-> 20240100 + i]), <<Str("EWMA_Volatility")>>,
                     [c \in {Str("EWMA_Volatility")} |-> SeriesColumn(n, present, rising)]) :
                present \in {P \in SUBSET (1..n) : Cardinality(P) >= n - MaxGaps},
                rising \in BOOLEAN } :
            n \in 0..MaxSeriesLen }

InitRolling ==
    /\ fs = [d \in Dirs |-> NoFiles]
    /\ nested = FALSE
    /\ order = <<>>
    /\ runs = 0
    /\ last \in { [op |-> "pivot", rolling_window |-> w, pivot |-> m] :
                    w \in Windows, m \in SeriesMatrices }

\* lines 89-91 applied to the matrix
ComputeRolling ==
    /\ last.op = "pivot"
    /\ \E rolling \in {RollingMatrix(last.pivot, last.rolling_window)} :
         last' = [op |-> "rolling", rolling_window |-> last.rolling_window,
                  pivot |-> last.pivot, rolling |-> rolling,
                  daily_change |-> DailyChange(rolling)]
    /\ runs' = runs + 1
    /\ UNCHANGED <<fs, nested, order>>

SpecRolling == InitRolling /\ [][ComputeRolling]_vars

(***************************************************************************)
(* Properties of the rolling mean and the daily change                     *)
(***************************************************************************)
\* the cells of a column that are not NaN
Defined(col) == {i \in 1..Len(col) : col[i] # NaNCell}

\* C11: for every window W >= 1 and every column of length >= W whose values
\* are all the same constant, every defined entry of the Rolling matrix is
\* that constant and every defined entry of the Daily-Change matrix is zero
C11_ConstantSeries ==
    (last.op = "rolling") =>
        \A c \in DOMAIN last.pivot.cell :
            LET col == last.pivot.cell[c]
            IN  (/\ last.rolling_window >= 1
                 /\ Len(col) >= last.rolling_window
                 /\ Len(col) >= 1
                 /\ \A i \in 1..Len(col) : col[i] = col[1] /\ col[i] # NaNCell)
                => /\ \A i \in Defined(last.rolling.cell[c]) :
                        last.rolling.cell[c][i] = col[1]
                   /\ \A i \in Defined(last.daily_change.cell[c]) :
                        last.daily_change.cell[c][i] = [num |-> 0, den |-> 1]

\* a constant column of four rows under the window 3: the rolling mean and
\* the daily change both have defined entries
C11_Witness ==
    /\ last.op = "rolling"
    /\ last.rolling_window = 3
    /\ \E c \in DOMAIN last.pivot.cell :
         /\ Len(last.pivot.cell[c]) = 4
         /\ \A i \in 1..4 : last.pivot.cell[c][i] = [num |-> 20, den |-> 1]
         /\ Defined(last.rolling.cell[c]) = 3..4
         /\ Defined(last.daily_change.cell[c]) = {4}

\* C12: whenever the builder computes its matrices, Rolling and Daily-Change
\* have the date index of Original, in ascending order, and its columns; a
\* Daily-Change entry at row i is defined exactly when the Rolling entries at
\* rows i and i-1 are both defined, and then it is their difference; the
\* workbook holds these three matrices
C12_AlignedMatrices ==
    (last.op = "timeseries" /\ Len(last.combined.rows) > 0) =>
        LET P == last.pivot
            R == last.rolling
            D == last.daily_change
        IN  /\ R.index = P.index /\ D.index = P.index
            /\ \A i \in 1..Len(P.index), j \in 1..Len(P.index) :
                   i < j => P.index[i] < P.index[j]
            /\ R.columns = P.columns /\ D.columns = P.columns
            /\ DOMAIN R.cell = Range(P.columns) /\ DOMAIN D.cell = Range(P.columns)
            /\ \A c \in Range(P.columns) :
                 /\ Len(R.cell[c]) = Len(P.index) /\ Len(D.cell[c]) = Len(P.index)
                 /\ \A i \in 1..Len(P.index) :
                      LET both == i > 1 /\ R.cell[c][i] # NaNCell /\ R.cell[c][i - 1] # NaNCell
                      IN  /\ (D.cell[c][i] # NaNCell) <=> both
                          /\ both =>
                               D.cell[c][i].num * R.cell[c][i].den * R.cell[c][i - 1].den
                                 = D.cell[c][i].den
                                     * (R.cell[c][i].num * R.cell[c][i - 1].den
                                          - R.cell[c][i - 1].num * R.cell[c][i].den)
            /\ \A n \in last.written :
                   "sheets" \in DOMAIN fs[last.args.output_folder][n] =>
                       fs[last.args.output_folder][n].sheets =
                           [Original_TS |-> P, Rolling |-> R, Daily_Change |-> D]

\* a run that writes a workbook whose Daily-Change sheet has a defined entry
\* that is not zero, and an undefined one
C12_Witness ==
    /\ last.op = "timeseries"
    /\ last.status = "ok"
    /\ \E n \in last.written :
         /\ "sheets" \in DOMAIN fs[last.args.output_folder][n]
         /\ Len(last.pivot.index) >= 2
         /\ \E c \in Range(last.pivot.columns) :
              /\ last.daily_change.cell[c][1] = NaNCell
              /\ last.daily_change.cell[c][2] # NaNCell
              /\ last.daily_change.cell[c][2].num # 0

\* the smallest of the window, the number of rows and 10
Threshold(w, n) == CHOOSE m \in {w, n, 10} : m <= w /\ m <= n /\ m <= 10

\* C13: for a window W and an Original matrix of n rows, the Rolling entry at
\* a row is defined exactly when the W rows that end there (fewer at the
\* start) hold at least min(W, n, 10) defined values, and it is then the
\* mean of those values
C13_RollingEntry ==
    (last.op = "rolling") =>
        \A c \in DOMAIN last.pivot.cell :
            LET col == last.pivot.cell[c]
                W == last.rolling_window
                RECURSIVE Sum(_)
                Sum(S) == IF S = {} THEN [num |-> 0, den |-> 1]
                          ELSE LET j == CHOOSE x \in S : TRUE
                                   t == Sum(S \ {j})
                               IN  [num |-> col[j].num * t.den + t.num * col[j].den,
                                    den |-> col[j].den * t.den]
            IN  \A i \in 1..Len(col) :
                    LET window == {j \in 1..i : j > i - W /\ col[j] # NaNCell}
                        entry == last.rolling.cell[c][i]
                        enough == Cardinality(window) >= Threshold(W, Len(col))
                    IN  /\ (entry # NaNCell) <=> enough
                        /\ enough =>
                             entry.num * Sum(window).den * Cardinality(window)
                                 = Sum(window).num * entry.den

\* the default window on twelve rows of which the second is NaN: the entry
\* of row 10 is undefined, having nine values, and that of row 11 is the
\* mean of ten values
C13_Witness ==
    /\ last.op = "rolling"
    /\ last.rolling_window = 21
    /\ \E c \in DOMAIN last.pivot.cell :
         /\ Len(last.pivot.cell[c]) = 12
         /\ Defined(last.pivot.cell[c]) = (1..12) \ {2}
         /\ last.pivot.cell[c][12] # last.pivot.cell[c][1]
         /\ last.rolling.cell[c][10] = NaNCell
         /\ last.rolling.cell[c][11] # NaNCell

(***************************************************************************)
(* One invocation of a filter on a folder whose second file may lack a     *)
(* column                                                                  *)
(***************************************************************************)
\* the headers of b.csv: complete, or without one of the columns the
\* filters look at
FilterHeaders ==
    {FullHeader} \cup {FullHeader \ {Str(c)} : c \in {"Basis", "Type", "Curve_Date", "Call/Put"}}

\* invocations of filter_vol_data: no optional filter; type and call/put
\* filter; month; a range that leaves out the year argument; a start date
\* alone; call/put filter, range and month together
VolMaskArgs ==
    { [year |-> Str(c[1]), basis_filter |-> <<Str("NYMEX")>>, type_filter |-> Str(c[2]),
       callput_filter |-> Str(c[3]), month |-> Str(c[4]),
       start_date |-> Str(c[5]), end_date |-> Str(c[6])] :
        c \in { <<"2024", "", "", "", "", "">>,
                <<"2024", "hist", "ewma", "", "", "">>,
                <<"2024", "", "", "02", "", "">>,
                <<"2023", "", "", "", "2024-01-01", "2024-01-31">>,
                <<"2024", "", "", "", "2024-02-01", "">>,
                <<"2023", "", "call", "01", "2023-01-01", "2024-12-31">> } }

InitFilterOnce ==
    /\ \E rows \in SeqsUpTo(RawRows, MaxRows) : \E k \in 0..Len(rows) :
       \E h \in FilterHeaders :
          fs = [d \in Dirs |->
                  IF d = "in"
                  THEN (Str("a.csv") :> File("ok", FullHeader, SubSeq(rows, 1, k)))
                       @@ (Str("b.csv") :> File("ok", h, SubSeq(rows, k + 1, Len(rows))))
                  ELSE NoFiles]
    /\ nested = FALSE
    /\ order = <<Str("a.csv"), Str("b.csv")>>
    /\ last = NoRun
    /\ runs = 0

FilterOnce ==
    /\ runs = 0
    /\ \/ \E a \in VolMaskArgs : RunFilterVol(a)
       \/ \E a \in ExtractArgs : RunExtract(a)

SpecFilterOnce == InitFilterOnce /\ [][FilterOnce]_vars

\* what a filter compares of a row: the cleaned labels, the date and Mid
Compared(r) ==
    <<Strip(r.Basis), Upper(Strip(r.Type)), Upper(Strip(r.CallPut)),
      ParseDate(r.Curve_Date), r.Mid>>

\* the rows of the input files that have a column Curve_Date, in the order
\* of the walk
DatedInputRows ==
    Flatten(Tup([i \in 1..Len(order) |->
        IF Str("Curve_Date") \in fs["in"][order[i]].cols
        THEN fs["in"][order[i]].rows ELSE <<>>]))

\* C14: in filter_vol_data a row survives exactly when its curve is in the
\* target list (compared without regard to case), its Type is the type
\* filter if given and its Call/Put the call/put filter if given (labels
\* compared cleaned and in upper case), its date lies in [start_date,
\* end_date] when both are given or else its year is the year argument, and
\* its month is the month argument if given
C14_VolMask ==
    (last.op = "filter_vol" /\ last.status = "ok") =>
        LET a == last.args
            Survives(r) ==
                LET d == ParseDate(r.Curve_Date)
                IN  /\ \E i \in 1..Len(a.basis_filter) :
                          Upper(Strip(r.Basis)) = Upper(a.basis_filter[i])
                    /\ a.type_filter # <<>> => Upper(Strip(r.Type)) = Upper(a.type_filter)
                    /\ a.callput_filter # <<>> =>
                          Upper(Strip(r.CallPut)) = Upper(a.callput_filter)
                    /\ d # NaT
                    /\ IF a.start_date # <<>> /\ a.end_date # <<>>
                       THEN ParseDate(a.start_date) <= d /\ d <= ParseDate(a.end_date)
                       ELSE YearOf(d) = ParseInt(a.year)
                    /\ a.month # <<>> => MonthOf(d) = ParseInt(a.month)
            expected == SelectSeq(DatedInputRows, Survives)
        IN  /\ Len(last.kept) = Len(expected)
            /\ \A i \in 1..Len(expected) : Compared(last.kept[i]) = Compared(expected[i])

\* a row of year 2024 survives a range although the year argument is 2023,
\* while another row of the folder is left out
C14_Witness ==
    /\ last.op = "filter_vol"
    /\ last.status = "ok"
    /\ last.args.start_date # <<>> /\ last.args.end_date # <<>>
    /\ last.args.year = Str("2023")
    /\ \E i \in 1..Len(last.kept) : YearOf(ParseDate(last.kept[i].Curve_Date)) = 2024
    /\ Len(last.kept) < Len(DatedInputRows)

\* C17: a filter run on a folder with a file that lacks Basis, Type or
\* Curve_Date does not fail, that file contributes no row, and the other
\* files are processed: the rows that survive are those that survive when
\* the folder holds the other files only; for extract_curve_data and for
\* filter_vol_data, also when a file has no column Call/Put
C17_IncompleteFileSkipped ==
    IsFilterRun =>
        LET complete == SelectSeq(WalkFiles(fs, nested, order), LAMBDA p :
                            {Str("Basis"), Str("Type"), Str("Curve_Date")}
                                \subseteq CleanHeader(fs[p[1]][p[2]].cols))
            others == [d \in Dirs |->
                         [n \in {p[2] : p \in {q \in Range(complete) : q[1] = d}} |->
                             [fs[d][n] EXCEPT !.cols = @ \cup {Str("Call/Put")}]]]
        IN  /\ last.status = "ok"
            /\ last.kept = IF last.op = "extract"
                           THEN ExtractWalk(NoRows, complete, others, last.args).kept
                           ELSE VolWalk(NoRows, complete, others, last.args).kept

(***************************************************************************)
(* app.py: the section 'Filter EWMA Data'                                  *)
(***************************************************************************)
\* re.search(rf'{year}\d{4}', file): the date YYYYMMDD of the first place
\* where the year is followed by four digits, as
\* pd.to_datetime(date_str, format='%Y%m%d') reads it; NaT when there is no
\* such place or the digits are no date
FileNameDate(name, year) ==
    LET places == {i \in 1..Len(name) :
                      /\ i + 7 <= Len(name)
                      /\ SubSeq(name, i, i + 3) = year
                      /\ AllDigits(SubSeq(name, i + 4, i + 7))}
    IN  IF places = {} THEN NaT
        ELSE LET i == CHOOSE x \in places : \A y \in places : x <= y
             IN  ParseDate(year \o <<"-">> \o SubSeq(name, i + 4, i + 5)
                               \o <<"-">> \o SubSeq(name, i + 6, i + 7))

\* steps 1 and 2: the files whose name ends in .csv and holds the year
\* followed by four digits are grouped by the month of their name; of each
\* file with the columns Basis, Call/Put and Type the rows of the curve with
\* Type HIST and Call/Put EWMA are kept, with the date of the file name
EwmaFileDict(fsys, ord, a) ==
    LET names == ListDir(fsys, "in", ord)
        Kept(n) ==
            LET f == fsys["in"][n]
                d == FileNameDate(n, a.year)
                cleaned == Tup([i \in 1..Len(f.rows) |->
                              [f.rows[i] EXCEPT !.Basis = Strip(@),
                                                !.Type = Upper(Strip(@)),
                                                !.CallPut = Upper(Strip(@)),
                                                !.date = FormatDate(d)]])
            IN  IF \/ f.kind \notin {"ok", "small"}
                   \/ Len(f.rows) = 0
                   \/ ~ ({Str("Basis"), Str("Call/Put"), Str("Type")}
                            \subseteq CleanHeader(f.cols))
                   \/ d = NaT
                THEN <<>>
                ELSE SelectSeq(cleaned, LAMBDA r :
                         /\ Upper(r.Basis) = Upper(a.curve)
                         /\ r.Type = Str("HIST")
                         /\ r.CallPut = Str("EWMA"))
        months == Unique(Flatten(Tup([i \in 1..Len(names) |->
                     LET places == {j \in 1..Len(names[i]) :
                                       /\ j + 7 <= Len(names[i])
                                       /\ SubSeq(names[i], j, j + 3) = a.year
                                       /\ AllDigits(SubSeq(names[i], j + 4, j + 7))}
                     IN  IF EndsWith(names[i], Str(".csv")) /\ places # {}
                         THEN LET j == CHOOSE x \in places : \A y \in places : x <= y
                              IN  << <<a.year \o <<"-">> \o SubSeq(names[i], j + 4, j + 5),
                                       names[i]>> >>
                         ELSE <<>>])))
        keys == Unique(Tup([i \in 1..Len(months) |-> months[i][1]]))
    IN  Tup([k \in 1..Len(keys) |->
            [key |-> keys[k],
             groups |->
                 LET files == Sorted({m[2] : m \in {x \in Range(months) : x[1] = keys[k]}})
                     frames == Tup([i \in 1..Len(files) |->
                                   Frame(CleanHeader(fsys["in"][files[i]].cols) \cup {Str("date")},
                                         Kept(files[i]))])
                 IN  SelectSeq(frames, LAMBDA g : Len(g.rows) > 0)]])

\* the button 'Filter EWMA Data': a monthly file for each month with rows, in
\* a new temporary folder, then their concatenation as {year}_combined.csv
RunEwmaUI(a) ==
    /\ runs < MaxRuns
    /\ \E dict \in {EwmaFileDict(fs, order, a)} :
         LET filled == SelectSeq(dict, LAMBDA e : Len(e.groups) > 0)
             monthly == [n \in {e.key \o Str(".csv") : e \in Range(filled)} |->
                            LET e == CHOOSE x \in Range(filled) : x.key \o Str(".csv") = n
                                df == ConcatFrames(e.groups)
                            IN  File("ok", df.cols, df.rows)]
             read == Tup([i \in 1..Len(Sorted(DOMAIN monthly)) |->
                         ReadCsv(monthly[Sorted(DOMAIN monthly)[i]])])
             combined == IF Len(filled) = 0 THEN NoFiles
                         ELSE (a.year \o Str("_combined.csv")) :>
                                  File("ok", ConcatFrames(read).cols, ConcatFrames(read).rows)
         IN  /\ fs' = [fs EXCEPT !["ewma"] = combined @@ monthly]
             /\ last' = [op |-> "ewma_ui", args |-> a, status |-> "ok",
                         dict |-> filled, kept |-> Flatten(Tup([i \in 1..Len(filled) |->
                                                       EntryRows(filled[i])])),
                         written |-> DOMAIN monthly \cup DOMAIN combined,
                         emptyOut |-> TRUE]
    /\ runs' = runs + 1
    /\ UNCHANGED <<nested, order>>

(***************************************************************************)
(* Two invocations of a filter on a folder whose files are renamed between *)
(***************************************************************************)
\* the names a file of the input folder is given
RenameNames == {Str("20240115.csv"), Str("20240220.csv")}

EwmaArgs == {[year |-> Str("2024"), curve |-> Str("NYMEX")]}

InitRename ==
    /\ \E rows \in SeqsUpTo(RawRows, MaxRows) : \E k \in 0..Len(rows) :
          fs = [d \in Dirs |->
                  IF d = "in"
                  THEN (Str("20240115.csv") :> File("ok", FullHeader, SubSeq(rows, 1, k)))
                       @@ (Str("b.csv") :> File("ok", FullHeader, SubSeq(rows, k + 1, Len(rows))))
                  ELSE NoFiles]
    /\ nested = FALSE
    /\ order = <<Str("20240115.csv"), Str("b.csv")>>
    /\ last = NoRun
    /\ runs = 0

\* the user renames a file of the input folder between two invocations
Rename ==
    /\ runs >= 1
    /\ runs < MaxRuns
    /\ \E n \in DOMAIN fs["in"] : \E m \in RenameNames \ DOMAIN fs["in"] :
         /\ fs' = [fs EXCEPT !["in"] =
                      [x \in (DOMAIN @ \ {n}) \cup {m} |-> IF x = m THEN @[n] ELSE @[x]]]
         /\ order' = Tup([i \in 1..Len(order) |-> IF order[i] = n THEN m ELSE order[i]])
    /\ UNCHANGED <<nested, last, runs>>

\* the same filter is invoked again
NextRename ==
    \/ Rename
    \/ last.op \in {"none", "extract"} /\ \E a \in ExtractArgs : RunExtract(a)
    \/ last.op \in {"none", "filter_vol"} /\ \E a \in VolArgs : RunFilterVol(a)
    \/ last.op \in {"none", "ewma_ui"} /\ \E a \in EwmaArgs : RunEwmaUI(a)

SpecRename == InitRename /\ [][NextRename]_vars

\* the year-month groups of an invocation: each row with the key of its group
Groups(l) ==
    UNION { {<<l.dict[i].key, r>> : r \in Range(EntryRows(l.dict[i]))} :
            i \in 1..Len(l.dict) }

\* C15: two invocations of a filter with the same arguments on folders that
\* differ only in the names of their files put every row in the same
\* year-month group with the same date; for extract_curve_data,
\* filter_vol_data and the UI's EWMA filter
C15_GroupByOwnDate ==
    [][ (/\ last.op \in {"extract", "filter_vol", "ewma_ui"}
         /\ last'.op = last.op
         /\ last'.args = last.args
         /\ runs' = runs + 1)
        => Groups(last') = Groups(last) ]_vars

(***************************************************************************)
(* The readers of the filter and builder stages on one file                *)
(***************************************************************************)
\* the reader in the loop of extract_curve_data: TRUE when the file is
\* passed over
CurveFilterReadFails(f) == f.kind # "ok" \/ Len(f.rows) = 0

\* the result of a reader that returns no frame
NoData == [cols |-> {}, rows |-> <<>>, none |-> TRUE]

\* a file of the input folder: a UTF-8 or UTF-16 file with the full header,
\* a file of less than 10 bytes with the column Mid alone, or a file that is
\* no CSV text
ReaderFiles ==
    {File(k, FullHeader, rows) : k \in {"ok", "utf16"}, rows \in SeqsUpTo(RawRows, MaxRows)}
        \cup {File("small", {Str("Mid")}, <<>>),
              File("small", {Str("Mid")}, <<Row(<<>>, <<>>, <<>>, <<>>, Str("0.2"))>>),
              File("garbage", {}, <<>>)}

InitReader ==
    /\ \E f \in ReaderFiles :
          fs = [d \in Dirs |-> IF d = "in" THEN Str("a.csv") :> f ELSE NoFiles]
    /\ nested = FALSE
    /\ order = <<Str("a.csv")>>
    /\ last = NoRun
    /\ runs = 0

\* one of the readers is applied to the file
ReadFile ==
    /\ runs = 0
    /\ \E reader \in {"curve_filter", "vol_extractor", "volatility_surface"} :
         LET f == fs["in"][Str("a.csv")]
             fails == CASE reader = "curve_filter" -> CurveFilterReadFails(f)
                        [] reader = "vol_extractor" -> VolReadFails(f)
                        [] reader = "volatility_surface" -> SurfaceReadFails(f)
         IN  last' = [op |-> "read", args |-> reader, status |-> "ok",
                      result |-> IF fails THEN NoData ELSE Frame(f.cols, f.rows)]
    /\ runs' = runs + 1
    /\ UNCHANGED <<fs, nested, order>>

SpecReader == InitReader /\ [][ReadFile]_vars

\* C16: each reader returns the parsed row-set or the no-data signal and
\* never raises; it returns no-data when the file is below the byte
\* threshold, when it parses under neither encoding, and when the parsed
\* result has zero rows
C16_ReaderNoData ==
    (last.op = "read") =>
        LET f == fs["in"][Str("a.csv")]
        IN  /\ last.status = "ok"
            /\ last.result \in {NoData, Frame(f.cols, f.rows)}
            /\ (f.kind \in {"small", "garbage"} \/ Len(f.rows) = 0) => last.result = NoData

\* C18: the Surface Builder and the Time-Series Builder complete whatever
\* files the data folder holds: a file that lacks the Type, Mid or Basis
\* column, or whose Contract_Month values are all missing, is passed over
\* and the builder does not end with an unhandled failure
C18_BuilderCompletes ==
    (last.op \in {"surface", "timeseries"}) => last.status = "ok"

\* the rows of the input folder the time series can use under the last
\* invocation: rows of a CSV file that the month filter takes and that has
\* a date column and the column Mid, with a date that parses (inside the
\* range when one is given) and a numeric Mid
UsableRows ==
    LET a == last.args
        Usable(n, r) ==
            LET cols == CleanHeader(fs["in"][n].cols)
                d == ParseDate(IF Str("date") \in cols THEN r.date ELSE r.Curve_Date)
            IN  /\ EndsWith(n, Str(".csv"))
                /\ a.month # <<>> => Contains(n, a.month)
                /\ fs["in"][n].kind \in {"ok", "small"}
                /\ Str("date") \in cols \/ Str("Curve_Date") \in cols
                /\ Str("Mid") \in cols
                /\ d # NaT
                /\ (a.start_date # <<>> /\ a.end_date # <<>>) =>
                       ParseDate(a.start_date) <= d /\ d <= ParseDate(a.end_date)
                /\ ToNumeric(r.Mid) # NaN
    IN  UNION { {<<n, r>> : r \in {x \in Range(fs["in"][n].rows) : Usable(n, x)}} :
                n \in DOMAIN fs["in"] }

\* C19: if no input file yields a usable row, build_vol_time_series returns
\* successfully and writes no workbook and no image into the output folder
C19_NothingUsableNothingWritten ==
    (last.op = "timeseries" /\ UsableRows = {}) =>
        /\ last.status = "ok"
        /\ last.written = {}
        /\ DOMAIN fs[last.args.output_folder] = {}

\* C20: a run of a filter or of the surface builder in which no row survives
\* (or no input file is found) completes without error and writes no
\* artifact: no monthly and no combined file, no plot and no matrix
C20_EmptyResultWritesNothing ==
    (last.op \in {"extract", "filter_vol", "surface"} /\ Len(last.kept) = 0) =>
        /\ last.status = "ok"
        /\ last.written = {}


(***************************************************************************)
(* Short series under the rolling window (lines 88-91)                     *)
(***************************************************************************)
\* C24: for a column of n rows, 2 <= n < rolling_window, all values defined,
\* the Rolling column has a defined value at some row before the last one and
\* the Daily-Change column has at least one defined entry
C24_ShortSeriesPartialWindow ==
    (last.op = "rolling") =>
        \A c \in DOMAIN last.pivot.cell :
            LET col == last.pivot.cell[c]
                n   == Len(col)
            IN  (/\ 2 <= n
                 /\ n < last.rolling_window
                 /\ Defined(col) = 1..n)
                => /\ \E i \in Defined(last.rolling.cell[c]) : i < n
                   /\ Defined(last.daily_change.cell[c]) # {}

(***************************************************************************)
(* The combined artifact after several runs into one output folder         *)
(***************************************************************************)
\* the combined artifact the last filter run wrote
LastCombinedName ==
    IF last.op = "extract" THEN ExtractCombinedName(last.args.year)
    ELSE VolCombinedName(last.args)

\* a stored row passes the filter of the last run
PassesLastFilter(r) ==
    LET w == WithDateColumns(r)
    IN  /\ ParseDate(r.Curve_Date) # NaT
        /\ IF last.op = "extract"
           THEN /\ ExtractMask(w, last.args)
                /\ (last.args.month # <<>> => w.month = last.args.month)
           ELSE VolMask(w, last.args)

\* C27: after any sequence of filter runs into the same output folder, the
\* combined artifact written by the last run holds only rows that satisfy the
\* last run's filter (curve, year or range, month, type)
C27_CombinedOnlyLastFilter ==
    (IsFilterRun /\ last.status = "ok" /\ LastCombinedName \in last.written) =>
        \A r \in Range(fs["out"][LastCombinedName].rows) : PassesLastFilter(r)

(***************************************************************************)
(* Schema selection of the time-series builder (lines 74-85, 108-201)      *)
(***************************************************************************)
\* the rows the last run of the builder loaded, file by file
LoadedFrames ==
    {TSFrame(n, fs[last.args.input_folder][n], last.args) :
        n \in DOMAIN fs[last.args.input_folder]}

\* the mean of Mid over the loaded rows of one date, and of one contract
\* month when one is given
MeanMid(date, cm) ==
    LET rows == SelectSeq(last.combined.rows, LAMBDA r :
                    r.date = date /\ (cm # <<>> => r.Contract_Month = cm))
    IN  IF Len(rows) = 0 THEN NaNCell
        ELSE Mean(Tup([j \in 1..Len(rows) |-> rows[j].Mid]))

\* C25: when a loaded file has the column Contract_Month, also next to files
\* without it, the Original matrix has one column for each contract month with
\* the mean Mid of each (date, contract month) and the charts are drawn for
\* each contract month; when no loaded file has it, Original has the single
\* column EWMA_Volatility with the mean Mid of all rows of each date and the
\* two EWMA charts are drawn
C25_SchemaSelection ==
    (last.op = "timeseries" /\ last.status = "ok" /\ last.written # {}) =>
        LET surface == \E f \in LoadedFrames : Str("Contract_Month") \in f.cols
            dated == {r \in Range(last.combined.rows) : r.date # NaT}
            months == {r.Contract_Month : r \in dated} \ {<<>>}
            pivot == last.pivot
        IN  IF surface
            THEN /\ Range(pivot.columns) = months
                 /\ Len(pivot.columns) = Cardinality(months)
                 /\ \A c \in months : \A i \in 1..Len(pivot.index) :
                       pivot.cell[c][i] = MeanMid(pivot.index[i], c)
                 /\ Cardinality(last.written) = 1 + 2 * Cardinality(months)
                 /\ \A c \in months : \E n \in last.written :
                       EndsWith(n, <<"_">> \o c \o Str("_timeseries_rolling.png"))
            ELSE /\ pivot.columns = <<Str("EWMA_Volatility")>>
                 /\ Range(pivot.index) = {r.date : r \in dated}
                 /\ \A i \in 1..Len(pivot.index) :
                       pivot.cell[Str("EWMA_Volatility")][i] = MeanMid(pivot.index[i], <<>>)
                 /\ Cardinality(last.written) = 3

\* C25 happens: an EWMA-style file next to a surface-style file, one row each,
\* gives the column of the contract month alone and its two charts
C25_Witness ==
    /\ last.op = "timeseries"
    /\ last.status = "ok"
    /\ Str("Contract_Month") \notin fs["in"][Str("2024-01.csv")].cols
    /\ Str("Contract_Month") \in fs["in"][Str("2024-02.csv")].cols
    /\ Len(fs["in"][Str("2024-01.csv")].rows) > 0
    /\ Len(last.combined.rows) = 2
    /\ last.pivot.columns = <<Str("2024-04")>>
    /\ last.pivot.cell[Str("2024-04")] = <<[num |-> 24, den |-> 1]>>
    /\ Cardinality(last.written) = 3

(***************************************************************************)
(* The rows behind the matrices of the time-series builder                 *)
(***************************************************************************)
\* the defined values of a matrix, each with its date and its column
Values(m) ==
    {<<m.index[i], c, m.cell[c][i]>> :
        i \in 1..Len(m.index), c \in Range(m.columns)} \ 
    {<<m.index[i], c, NaNCell>> : i \in 1..Len(m.index), c \in Range(m.columns)}

\* the Original matrix of the loaded rows without those of another curve
\* than curve_name
OwnPivot ==
    LET own == Frame(last.combined.cols,
                     SelectSeq(last.combined.rows, LAMBDA r :
                         r.Basis # <<>> =>
                             Upper(Strip(r.Basis)) = Upper(last.args.curve_name)))
    IN  IF Len(own.rows) = 0 THEN Matrix(<<>>, <<>>, <<>>) ELSE TSPivot(own)

\* C26: a row whose Basis differs from curve_name contributes to no value of
\* the Original, Rolling or Daily-Change matrix of the workbook, and the
\* workbook's name starts with curve_name
C26_OnlyTargetCurve ==
    (last.op = "timeseries" /\ last.status = "ok") =>
        \A n \in last.written :
            LET book == fs[last.args.output_folder][n]
                curve == last.args.curve_name
                rolling == RollingMatrix(OwnPivot, last.args.rolling_window)
            IN  "sheets" \in DOMAIN book =>
                   /\ Values(book.sheets.Original_TS) = Values(OwnPivot)
                   /\ Values(book.sheets.Rolling) = Values(rolling)
                   /\ Values(book.sheets.Daily_Change) = Values(DailyChange(rolling))
                   /\ Len(n) > Len(curve)
                   /\ SubSeq(n, 1, Len(curve) + 1) = curve \o <<"_">>

(***************************************************************************)
(* Monthly and yearly surfaces of one run (lines 75-133)                   *)
(***************************************************************************)
\* the monthly surfaces of the last run that belong to a yearly surface
MonthsOf(y) ==
    {m \in last.made : m.scope = "month" /\ SubSeq(m.period, 1, 4) = SubSeq(y.period, 1, 4)}

\* C30: in one run of the surface builder every month with a matrix has the
\* matrix of its year, the yearly matrix has exactly the dates of the monthly
\* matrices of its months, and every cell (date, moneyness) of a monthly
\* matrix has the same value in the yearly matrix; also when the combined
\* file lies next to the monthly files and every row is loaded twice
C30_MonthlyYearlyAgree ==
    (SurfaceRan /\ last.status = "ok") =>
        /\ \A m \in last.made : m.scope = "month" =>
              \E y \in last.made : y.scope = "year" /\ m \in MonthsOf(y)
        /\ \A y \in last.made : y.scope = "year" =>
              /\ {k[1] : k \in DOMAIN MatrixOf(y)}
                    = UNION {{k[1] : k \in DOMAIN MatrixOf(m)} : m \in MonthsOf(y)}
              /\ \A m \in MonthsOf(y) : \A k \in DOMAIN MatrixOf(m) :
                    /\ k \in DOMAIN MatrixOf(y)
                    /\ MatrixOf(y)[k] = MatrixOf(m)[k]

\* C30 happens: the builder read the two monthly files and the combined file,
\* and the yearly matrix holds the dates of January and of February
C30_Witness ==
    /\ SurfaceRan
    /\ last.status = "ok"
    /\ Len(last.kept) = 2 * (E2EJanRows + E2EFebRows)
    /\ \E y \in last.made :
         /\ y.scope = "year"
         /\ Cardinality(MonthsOf(y)) = 2
         /\ {20240105, 20240210} \subseteq {k[1] : k \in DOMAIN MatrixOf(y)}

(***************************************************************************)
(* The surface builder on the output of the filter stage, same curve       *)
(***************************************************************************)
\* the filter stage runs once into the empty output folder, then the surface
\* builder runs on that folder for the curve the filter was given
NextCross ==
    \/ DOMAIN fs["out"] = {} /\ \E a \in ExtractArgs : RunExtract(a)
    \/ /\ last.op = "extract"
       /\ RunSurface([data_folder |-> "out", output_folder |-> "surf",
                      target_curve |-> last.args.curves[1], target_month |-> <<>>,
                      date_range |-> <<>>, start_date |-> <<>>, end_date |-> <<>>])

SpecCross == Init /\ [][NextCross]_vars

\* C29: every row the filter stage retained for the curve, whose Type is a
\* key of the moneyness table and whose Mid is numeric, has its cell
\* (date, moneyness) in a monthly surface matrix of the run of the surface
\* builder for the same curve, whatever the case of its Basis
C29_RetainedRowsReachSurface ==
    (SurfaceRan /\ last.args.data_folder = "out") =>
        \A n \in DOMAIN fs["out"] : \A r \in Range(fs["out"][n].rows) :
            (r.Type \in DOMAIN type_to_moneyness /\ ToNumeric(r.Mid) # NaN) =>
                \E m \in last.made :
                    /\ m.scope = "month"
                    /\ <<ParseDate(r.date), MapMoneyness(r.Type)>> \in DOMAIN MatrixOf(m)

(***************************************************************************)
(* The month filter of the builders on the output of the filter stage      *)
(***************************************************************************)
\* the months the sidebar passes on: text of two digits
PipelineMonths == {Str("01"), Str("02"), Str("03")}

\* the filter stage runs once into the empty output folder; then a builder
\* runs on that folder with a month
NextMonth ==
    \/ E2EFilter
    \/ /\ last.op = "extract"
       /\ \E mm \in PipelineMonths : RunSurface([E2ESurfaceArgs EXCEPT !.target_month = mm])
    \/ /\ last.op = "extract"
       /\ \E mm \in PipelineMonths :
             RunTimeSeries([input_folder |-> "out", output_folder |-> "ewma",
                            curve_name |-> Str("NYMEX"), month |-> mm,
                            rolling_window |-> 21, start_date |-> <<>>, end_date |-> <<>>])

SpecMonth == InitE2E /\ [][NextMonth]_vars

\* C28: with the month filter MM on a folder of filter-stage output, every
\* monthly surface the surface builder makes is for month MM, and every date
\* of the Original, Rolling and Daily-Change matrices of the time-series
\* builder lies in month MM
C28_MonthFilter ==
    /\ (SurfaceRan /\ last.args.target_month # <<>>) =>
          \A m \in last.made :
              m.scope = "month" => SubSeq(m.period, 6, 7) = last.args.target_month
    /\ (last.op = "timeseries" /\ last.args.month # <<>>) =>
          \A i \in 1..Len(last.pivot.index) :
              /\ MonthStr(last.pivot.index[i]) = last.args.month
              /\ last.rolling.index = last.pivot.index
              /\ last.daily_change.index = last.pivot.index

(***************************************************************************)
(* Header names with blanks and zero-width characters around them          *)
(***************************************************************************)
\* a header name as the file carries it: clean, with a blank before or
\* after it, or with the zero-width character before or after it
HeaderNames(c) ==
    {c, <<" ">> \o c, c \o <<" ">>, <<ZWSP>> \o c, c \o <<ZWSP>>}

\* the header names without the blanks and zero-width characters around them
RECURSIVE TrimName(_)
TrimName(c) ==
    IF Len(c) > 0 /\ c[1] \in {" ", ZWSP} THEN TrimName(Tail(c))
    ELSE IF Len(c) > 0 /\ c[Len(c)] \in {" ", ZWSP} THEN TrimName(SubSeq(c, 1, Len(c) - 1))
    ELSE c

\* the folder with the same files under clean header names
CleanFolder ==
    [d \in Dirs |->
        IF d # "in" THEN fs[d]
        ELSE [n \in DOMAIN fs[d] |->
                 [fs[d][n] EXCEPT !.cols = {TrimName(c) : c \in @}]]]

\* the input folder: one file of up to MaxRows rows whose header has one
\* name written in one of these ways
InitHeader ==
    /\ \E rows \in SeqsUpTo(RawRows, MaxRows) :
       \E col \in FullHeader : \E name \in HeaderNames(col) :
          fs = [d \in Dirs |->
                  IF d = "in"
                  THEN (Str("a.csv") :> File("ok", (FullHeader \ {col}) \cup {name}, rows))
                  ELSE NoFiles]
    /\ nested = FALSE
    /\ order = <<Str("a.csv")>>
    /\ last = NoRun
    /\ runs = 0

\* one run of one of the four stages on the folder
HeaderOnce ==
    /\ runs = 0
    /\ \/ \E a \in ExtractArgs : RunExtract(a)
       \/ \E a \in VolArgs : RunFilterVol(a)
       \/ \E a \in SurfaceArgs : a.output_folder # a.data_folder /\ RunSurface(a)
       \/ \E a \in TSArgs : RunTimeSeries(a)

SpecHeader == InitHeader /\ [][HeaderOnce]_vars

\* C21: each of the four stages processes a file whose header names carry
\* blanks or zero-width characters around them exactly as the same file with
\* clean header names: the same rows kept or loaded, the same outcome of the
\* run
C21_HeaderNormalised ==
    LET a == last.args
    IN  /\ last.op = "extract" =>
              LET walk == ExtractWalk(NoRows, WalkFiles(CleanFolder, nested, order),
                                      CleanFolder, a)
              IN  last.kept = walk.kept
        /\ last.op = "filter_vol" =>
              LET walk == VolWalk(NoRows, WalkFiles(CleanFolder, nested, order),
                                  CleanFolder, a)
              IN  /\ (last.status = "raised") = walk.raised
                  /\ last.kept = walk.kept
        /\ last.op = "surface" =>
              LET load == SurfaceLoad(NothingLoaded, ListDir(CleanFolder, a.data_folder, order),
                                      CleanFolder[a.data_folder], a)
                  all == IF load.raised THEN <<>> ELSE SurfaceAll(load.rows, a)
              IN  /\ (last.status = "raised")
                         = (load.raised \/ (Len(all) > 0 /\ ~load.hasBasis))
                  /\ last.kept = all
        /\ last.op = "timeseries" =>
              last.combined = TSCombined(CleanFolder, a, order)

(***************************************************************************)
(* Two invocations of extract_curve_data, file operation by file operation *)
(***************************************************************************)
\* the rows of the input file a.csv, and the invocations
ProcRows ==
    { Row(Str("NYMEX"), Str("ATM"), Str("CALL"), Str("2024-01-05"), Str("0.2")),
      Row(Str("NYMEX"), Str("ATM"), Str("CALL"), Str("2024-02-10"), Str("0.3")),
      Row(Str("NYMEX"), Str("ATM"), Str("CALL"), Str("2023-01-07"), Str("0.2")) }

ProcArgs == {E2EExtractArgs, [E2EExtractArgs EXCEPT !.year = Str("2023")]}

\* an invocation before its first step: its arguments, its output folder, its
\* position, the files the walk has yet to yield, the folders walked,
\* file_dict, the index of the next monthly file, the monthly files yet to be
\* re-read, all_months, and the file operations done so far
ProcStart(a, out) ==
    [args |-> a, out |-> out, pc |-> "walk", todo |-> <<>>, walked |-> 0, acc |-> NoRows,
     k |-> 1, names |-> <<>>, all_months |-> <<>>, log |-> <<>>]

\* one invocation walks the folder while the other walks it too, each writing
\* into its own output folder or both into the same; a.csv holds up to
\* MaxRows rows, b.csv one row of February 2024
InitProc ==
    /\ \E rows \in SeqsUpTo(ProcRows, MaxRows) :
          fs = [d \in Dirs |->
                  IF d = "in"
                  THEN (Str("a.csv") :> File("ok", FullHeader, rows))
                       @@ (Str("b.csv") :> File("ok", FullHeader,
                              <<Row(Str("NYMEX"), Str("ATM + $0.25"), Str("CALL"),
                                    Str("2024-02-12"), Str("0.25"))>>))
                  ELSE NoFiles]
    /\ nested \in BOOLEAN
    /\ order = <<Str("a.csv"), Str("b.csv")>>
    /\ \E a \in ProcArgs : \E out \in {"out", "surf"} :
          last = [op |-> "concurrent",
                  procs |-> <<ProcStart(E2EExtractArgs, "out"), ProcStart(a, out)>>]
    /\ runs = 0

\* the folder an invocation writes into and lists: output_folder
ProcDirShared(q) == "out"

ProcDir(q) == q.out

\* the position after a step, with the monthly files written as soon as a
\* file has been read
ProcNextPcEager(q, nest) ==
    IF q.pc \in {"walk", "read", "write"} /\ q.k <= Len(q.acc.dict) THEN "write"
    ELSE IF q.pc \in {"walk", "read", "write"} /\ Len(q.todo) > 0 THEN "read"
    ELSE IF q.pc \in {"walk", "read", "write"} /\ nest /\ q.walked = 1 THEN "walk"
    ELSE IF q.pc \in {"walk", "read", "write"} THEN "list"
    ELSE IF q.pc \in {"list", "reread"} /\ Len(q.names) > 0 THEN "reread"
    ELSE IF q.pc \in {"list", "reread"} /\ Len(q.all_months) > 0 THEN "combine"
    ELSE "done"

\* the position after a step: the loop over os.walk (lines 20-76) ends before
\* the loop over file_dict (lines 80-84) starts, which ends before the
\* folder is listed and the monthly files are read again (lines 87-91);
\* combined_df is written when all_months is not empty (lines 92-95)
ProcNextPc(q, nest) ==
    IF q.pc \in {"walk", "read"} /\ Len(q.todo) > 0 THEN "read"
    ELSE IF q.pc \in {"walk", "read"} /\ nest /\ q.walked = 1 THEN "walk"
    ELSE IF q.pc \in {"walk", "read", "write"} /\ q.k <= Len(q.acc.dict) THEN "write"
    ELSE IF q.pc \in {"walk", "read", "write"} THEN "list"
    ELSE IF q.pc \in {"list", "reread"} /\ Len(q.names) > 0 THEN "reread"
    ELSE IF q.pc \in {"list", "reread"} /\ Len(q.all_months) > 0 THEN "combine"
    ELSE "done"

\* a step of invocation p leaves it as q and the folders as fsys
ProcStep(p, q, fsys) ==
    /\ last' = [last EXCEPT !.procs[p] = [q EXCEPT !.pc = ProcNextPc(q, nested)]]
    /\ fs' = fsys
    /\ runs' = IF ProcNextPc(q, nested) = "done" THEN runs + 1 ELSE runs
    /\ UNCHANGED <<nested, order>>

\* os.walk yields a folder: the input folder, then the output folder when it
\* lies inside (line 20)
ProcWalk(p) ==
    LET q == last.procs[p]
        dir == IF q.walked = 0 THEN "in" ELSE "out"
        files == ListDir(fs, dir, order)
    IN  /\ q.pc = "walk"
        /\ ProcStep(p, [q EXCEPT !.todo = Tup([i \in 1..Len(files) |-> <<dir, files[i]>>]),
                                 !.walked = @ + 1,
                                 !.log = Append(@, [kind |-> "walk", dir |-> dir,
                                                     name |-> <<>>])],
                    fs)

\* one file of the walk is read, filtered and grouped (lines 21-76)
ProcRead(p) ==
    LET q == last.procs[p]
        path == Head(q.todo)
        csv == EndsWith(path[2], Str(".csv"))
    IN  /\ q.pc = "read"
        /\ ProcStep(p, [q EXCEPT !.todo = Tail(@),
                                 !.acc = IF csv THEN ExtractFile(@, fs[path[1]][path[2]], q.args)
                                         ELSE @,
                                 !.log = IF csv
                                         THEN Append(@, [kind |-> "read", dir |-> path[1],
                                                          name |-> path[2]])
                                         ELSE @],
                    fs)

\* one monthly file is written (lines 80-84)
ProcWrite(p) ==
    LET q == last.procs[p]
        entry == q.acc.dict[q.k]
        name == ExtractMonthlyName(entry.key)
    IN  /\ q.pc = "write"
        /\ ProcStep(p, [q EXCEPT !.k = @ + 1,
                                 !.log = Append(@, [kind |-> "write", dir |-> ProcDir(q),
                                                     name |-> name])],
                    [fs EXCEPT ![ProcDir(q)] = WriteMonthly(@, <<entry>>, <<name>>)])

\* the output folder is listed (line 89)
ProcList(p) ==
    LET q == last.procs[p]
    IN  /\ q.pc = "list"
        /\ ProcStep(p, [q EXCEPT !.names = ExtractMonthlyFiles(fs[ProcDir(q)]),
                                 !.log = Append(@, [kind |-> "list", dir |-> ProcDir(q),
                                                     name |-> <<>>])],
                    fs)

\* one monthly file is read again (line 88)
ProcReread(p) ==
    LET q == last.procs[p]
        name == Head(q.names)
    IN  /\ q.pc = "reread"
        /\ ProcStep(p, [q EXCEPT !.names = Tail(@),
                                 !.all_months = Append(@, ReadCsv(fs[ProcDir(q)][name])),
                                 !.log = Append(@, [kind |-> "reread", dir |-> ProcDir(q),
                                                     name |-> name])],
                    fs)

\* the combined file is written (lines 92-95)
ProcCombine(p) ==
    LET q == last.procs[p]
        combined_df == ConcatFrames(q.all_months)
        name == ExtractCombinedName(q.args.year)
    IN  /\ q.pc = "combine"
        /\ ProcStep(p, [q EXCEPT !.log = Append(@, [kind |-> "combine", dir |-> ProcDir(q),
                                                     name |-> name])],
                    [fs EXCEPT ![ProcDir(q)] =
                        WriteFile(@, name, File("ok", combined_df.cols, combined_df.rows))])

NextProc ==
    \E p \in 1..2 :
        \/ ProcWalk(p)
        \/ ProcRead(p)
        \/ ProcWrite(p)
        \/ ProcList(p)
        \/ ProcReread(p)
        \/ ProcCombine(p)

SpecProc == InitProc /\ [][NextProc]_vars

\* the output folder an invocation fills when it runs alone into an empty
\* folder
AloneOut(q) ==
    LET walk == ExtractWalk(NoRows, WalkFiles(fs, FALSE, order), fs, q.args)
        monthly == WriteMonthly(NoFiles, walk.dict, ExtractMonthlyNames(walk.dict))
    IN  ExtractCombine(monthly, q.args.year)

\* C22: two invocations with distinct output folders, neither inside the input
\* folder, do not interfere under any interleaving of their file operations:
\* every file an invocation has written is the file it writes when run alone,
\* and when it has finished its output folder holds exactly the monthly and
\* combined artifacts of the run alone
C22_NoInterference ==
    (last.op = "concurrent" /\ ~nested /\ last.procs[1].out # last.procs[2].out) =>
        \A p \in 1..2 :
            LET q == last.procs[p]
            IN  /\ \A n \in DOMAIN fs[q.out] :
                      n \in DOMAIN AloneOut(q) /\ fs[q.out][n] = AloneOut(q)[n]
                /\ q.pc = "done" => fs[q.out] = AloneOut(q)

\* C22 happens: with distinct output folders the first invocation has written
\* its monthly files and is about to read them again while the second one,
\* for another year, is between the writing of its monthly file and the
\* listing of its folder
C22_Witness ==
    /\ last.op = "concurrent"
    /\ ~nested
    /\ last.procs[1].out # last.procs[2].out
    /\ last.procs[1].pc = "reread"
    /\ Cardinality(DOMAIN fs[last.procs[1].out]) = 2
    /\ last.procs[2].pc = "list"
    /\ DOMAIN fs[last.procs[2].out] = {Str("2023-01.csv")}

==============================================================================
